---- MODULE Spec2Model ----
(***************************************************************************)
(* Verification model of the temporal-realism and statistical-fidelity     *)
(* engine of Asana-Automation: business calendar (utils/temporal.py),      *)
(* task lifecycle timestamps (utils/temporal.py), custom-field             *)
(* distribution registry and sampler (generators/custom_fields.py) and the *)
(* comment-timing sampler (generators/comments.py), the data validator     *)
(* (utils/validation.py) with the run that calls it (main.py), and the     *)
(* Status model (models/base.py).                                          *)
(*                                                                         *)
(* Datetimes are whole seconds since Monday 2025-12-29 00:00:00 (day 0);   *)
(* a date is a day number, weekday 0 = Monday as in date.weekday().        *)
(* An optional value (Python None) is the empty sequence, a present value  *)
(* v is <<v>>.                                                             *)
(***************************************************************************)
EXTENDS Integers, Sequences, FiniteSets, TLC

VARIABLES cal, life, fld, cmt, dst, val, sts, prb, rts, tsk

vars == <<cal, life, fld, cmt, dst, val, sts, prb, rts, tsk>>

\* ------------------------------------------------------------------------
\* Generic helpers (Python built-ins)
\* ------------------------------------------------------------------------
None == <<>>

Some(v) == <<v>>

IsNone(x) == x = <<>>

Val(x) == x[1]

abs(x) == IF x < 0 THEN -x ELSE x

max(a, b) == IF a >= b THEN a ELSE b

min(a, b) == IF a <= b THEN a ELSE b

SecondsPerDay == 86400

SecondsPerHour == 3600

\* datetime.date(): the day number of a datetime
date(t) == t \div SecondsPerDay

\* date.weekday(): 0 = Monday .. 6 = Sunday
weekday(d) == d % 7

\* datetime.hour
hour(t) == (t % SecondsPerDay) \div SecondsPerHour

\* datetime(y, m, d, h, mi, s) on the day of t
at_time(t, h, mi, s) == date(t) * SecondsPerDay + h * SecondsPerHour + mi * 60 + s

\* datetime.replace(hour=h, minute=mi, second=s)
replace_hms(t, h, mi, s) == at_time(t, h, mi, s)

\* (a - b).days of a timedelta: floor division by one day
timedelta_days(delta) == delta \div SecondsPerDay

\* ------------------------------------------------------------------------
\* BusinessCalendar (utils/temporal.py)
\* ------------------------------------------------------------------------
\* holidays.US() restricted to the modelled window: Thanksgiving 2025-11-27,
\* Christmas 2025-12-25, New Year 2026-01-01, MLK day 2026-01-19,
\* Washington's birthday 2026-02-16.
holiday_calendar == {-32, -4, 3, 21, 49}

is_business_day(d) ==
    IF weekday(d) >= 5 THEN FALSE ELSE d \notin holiday_calendar

RECURSIVE next_business_loop(_)
next_business_loop(t) ==
    IF ~is_business_day(date(t)) THEN next_business_loop(t + SecondsPerDay) ELSE t

\* get_next_business_day without the move to a later day
get_next_business_day_sameday(start_date) == start_date

get_next_business_day(start_date) == next_business_loop(start_date + SecondsPerDay)

RECURSIVE offset_loop(_, _, _)
offset_loop(current_date, days_to_add, remaining_days) ==
    IF remaining_days > 0
    THEN LET next == current_date + days_to_add * SecondsPerDay
         IN offset_loop(next, days_to_add,
                        IF is_business_day(date(next))
                        THEN remaining_days - 1 ELSE remaining_days)
    ELSE current_date

\* mutant: the step direction ignores the sign of the offset
get_business_day_offset_nosign(base_date, offset_days) ==
    IF offset_days = 0 THEN base_date
    ELSE offset_loop(base_date, 1, abs(offset_days))

RECURSIVE offset_loop_anyday(_, _, _)
offset_loop_anyday(current_date, days_to_add, remaining_days) ==
    IF remaining_days > 0
    THEN offset_loop_anyday(current_date + days_to_add * SecondsPerDay,
                            days_to_add, remaining_days - 1)
    ELSE current_date

\* mutant: every calendar day is counted, business day or not
get_business_day_offset_anyday(base_date, offset_days) ==
    IF offset_days = 0 THEN base_date
    ELSE offset_loop_anyday(base_date, IF offset_days > 0 THEN 1 ELSE -1,
                            abs(offset_days))

get_business_day_offset(base_date, offset_days) ==
    IF offset_days = 0 THEN base_date
    ELSE offset_loop(base_date, IF offset_days > 0 THEN 1 ELSE -1,
                     abs(offset_days))

\* ------------------------------------------------------------------------
\* LifecycleGenerator (utils/temporal.py)
\* ------------------------------------------------------------------------
\* random.random() is drawn on the grid i / RandomDen
RandomDen == 1000

\* the draws taken from the grid: 0, 0.5, 0.9 and the last point (0.999), so
\* that both sides of the thresholds 0.5, 0.8 and 0.85 and of the upper clamp
\* 0.95 of the completion probability are drawn, and that a re-anchored
\* completion can land in the last minutes before the due date
RandomDraws == {0, RandomDen \div 2, (9 * RandomDen) \div 10, RandomDen - 1}

\* probabilities are integers in units of 1 / RateScale
RateScale == 100000

\* hours drawn by random.choices(hours, weights): every hour of 0..23 has a
\* positive weight; the model draws from these representatives
HourDraws == {0, 14, 23}

SecondDraws == {0, 59}

\* minute_weights has 7 entries, minute_ranges has 5
minute_weights_len == 7

minute_ranges == << <<0, 1>>, <<1, 15>>, <<15, 30>>, <<30, 45>>, <<45, 60>> >>

work_start_hour == 9

work_end_hour == 18

\* draws of one call of get_random_time_in_work_hours / of one weekend snap
SnapDraws ==
    [hour : HourDraws, range_idx : 0..(minute_weights_len - 1),
     minute_hi : BOOLEAN, second : SecondDraws]

\* random.randint(0, 59) restricted to its end points
minute_of(dr) == IF dr.minute_hi THEN 59 ELSE 0

\* get_random_time_in_work_hours: [exc, value]; minute_ranges[range_idx]
\* raises IndexError for range_idx 5 and 6
get_random_time_in_work_hours(base_date, dr) ==
    IF dr.range_idx + 1 > Len(minute_ranges)
    THEN [exc |-> "IndexError", value |-> base_date]
    ELSE LET minute_range == minute_ranges[dr.range_idx + 1]
             minute == IF dr.minute_hi THEN minute_range[2] - 1 ELSE minute_range[1]
         IN [exc |-> "none", value |-> at_time(base_date, dr.hour, minute, dr.second)]

base_rates(department) ==
    CASE department = "engineering" -> 65000
      [] department = "product" -> 70000
      [] department = "marketing" -> 75000
      [] department = "sales" -> 60000
      [] department = "operations" -> 72000
      [] OTHER -> 68000

\* project_adjustments with the adjustment of the project type left out
project_adjustments_none(project_type) == 0

project_adjustments(project_type) ==
    CASE project_type = "sprint" -> 15000
      [] project_type = "bug_tracking" -> 5000
      [] project_type = "feature_development" -> 0
      [] project_type = "campaign" -> 10000
      [] project_type = "research" -> -20000
      [] OTHER -> 0

\* _get_completion_probability with the overdue test as days_until_due < 0
get_completion_probability_strict(department, project_type, created_at, due_date) ==
    LET rate0 == base_rates(department) + project_adjustments(project_type)
        days_until_due == timedelta_days(Val(due_date) - created_at)
        rate1 == IF IsNone(due_date) THEN rate0
                 ELSE IF days_until_due < 0 THEN (rate0 * 5) \div 10
                 ELSE IF days_until_due <= 3 THEN (rate0 * 12) \div 10
                 ELSE IF days_until_due <= 7 THEN (rate0 * 11) \div 10
                 ELSE IF days_until_due > 30 THEN (rate0 * 9) \div 10
                 ELSE rate0
        rate2 == IF weekday(date(created_at)) = 4 THEN (rate1 * 85) \div 100
                 ELSE IF weekday(date(created_at)) \in {5, 6} THEN (rate1 * 7) \div 10
                 ELSE rate1
    IN max(10000, min(95000, rate2))

\* _get_completion_probability, in units of 1 / RateScale
get_completion_probability(department, project_type, created_at, due_date) ==
    LET rate0 == base_rates(department) + project_adjustments(project_type)
        days_until_due == timedelta_days(Val(due_date) - created_at)
        rate1 == IF IsNone(due_date) THEN rate0
                 ELSE IF days_until_due <= 0 THEN (rate0 * 5) \div 10
                 ELSE IF days_until_due <= 3 THEN (rate0 * 12) \div 10
                 ELSE IF days_until_due <= 7 THEN (rate0 * 11) \div 10
                 ELSE IF days_until_due > 30 THEN (rate0 * 9) \div 10
                 ELSE rate0
        rate2 == IF weekday(date(created_at)) = 4 THEN (rate1 * 85) \div 100
                 ELSE IF weekday(date(created_at)) \in {5, 6} THEN (rate1 * 7) \div 10
                 ELSE rate1
    IN max(10000, min(95000, rate2))

\* project_type_patterns[..]['completion_acceleration'] * 10, default 'sprint'
completion_acceleration(project_type) ==
    CASE project_type = "sprint" -> 13
      [] project_type = "bug_tracking" -> 11
      [] project_type = "feature_development" -> 12
      [] project_type = "campaign" -> 14
      [] project_type = "research" -> 10
      [] OTHER -> 13

\* dept_multipliers * 10 of _generate_completion_timestamp
dept_multipliers(department) ==
    CASE department = "engineering" -> 12
      [] department = "product" -> 10
      [] department = "marketing" -> 8
      [] department = "sales" -> 6
      [] department = "operations" -> 11
      [] OTHER -> 10

\* created_at + duration_hours (lines 533-558); base_raw is the log-normal
\* draw in seconds
unanchored_completion_timestamp(created_at, due_date, department, project_type, base_raw) ==
    LET base_secs == max(1 * SecondsPerHour, min(base_raw, 336 * SecondsPerHour))
        duration0 == (base_secs * dept_multipliers(department)) \div 10
        days_until_due == timedelta_days(Val(due_date) - created_at)
        accel300 == 300 + (completion_acceleration(project_type) - 10)
                              * (30 - min(30, days_until_due))
        duration == IF ~IsNone(due_date) /\ days_until_due > 0
                    THEN (duration0 * 300) \div accel300
                    ELSE duration0
    IN created_at + duration

\* completion timestamp before the business-hours adjustment (lines 533-570);
\* base_raw is the log-normal draw in seconds, u the random.random() draw
raw_completion_timestamp(created_at, due_date, department, project_type, base_raw, u) ==
    LET completion0 == unanchored_completion_timestamp(created_at, due_date,
                           department, project_type, base_raw)
        max_completion == Val(due_date)
        min_completion == max(created_at + 1 * SecondsPerHour,
                              Val(due_date) - 3 * SecondsPerDay)
    IN IF ~IsNone(due_date) /\ completion0 > Val(due_date)
            /\ min_completion < max_completion
       THEN min_completion + ((max_completion - min_completion) * u) \div RandomDen
       ELSE completion0

\* _generate_completion_timestamp: [exc, value]
generate_completion_timestamp(created_at, due_date, department, project_type, base_raw, u, dr) ==
    LET completion == raw_completion_timestamp(created_at, due_date, department,
                                               project_type, base_raw, u)
    IN IF is_business_day(date(completion))
       THEN get_random_time_in_work_hours(completion, dr)
       ELSE [exc |-> "none",
             value |-> replace_hms(completion, min(max(hour(completion), 9), 20),
                                   minute_of(dr), dr.second)]

\* dept_adjustments * 10 of _generate_started_timestamp
start_dept_adjustments(department) ==
    CASE department = "engineering" -> 10
      [] department = "product" -> 8
      [] department = "marketing" -> 12
      [] department = "sales" -> 7
      [] department = "operations" -> 11
      [] OTHER -> 10

\* project_adjustments * 10 of _generate_started_timestamp
start_project_adjustments(project_type) ==
    CASE project_type = "sprint" -> 6
      [] project_type = "bug_tracking" -> 4
      [] project_type = "campaign" -> 15
      [] project_type = "research" -> 20
      [] OTHER -> 10

\* start timestamp after the two clamps, before the business-hours
\* adjustment (lines 475-507); start_raw is the log-normal draw in seconds
clamped_start_timestamp(created_at, completed_at, department, project_type, start_raw) ==
    LET hours0 == max(SecondsPerHour \div 2, min(start_raw, 168 * SecondsPerHour))
        hours1 == (hours0 * start_dept_adjustments(department)
                          * start_project_adjustments(project_type)) \div 100
        start0 == created_at + hours1
        max_start_time == completed_at - 30 * 60
        start1 == IF start0 > max_start_time THEN max_start_time ELSE start0
        min_start_time == created_at + 5 * 60
    IN IF start1 < min_start_time THEN min_start_time ELSE start1

\* _generate_started_timestamp
generate_started_timestamp(created_at, completed_at, department, project_type, start_raw, dr) ==
    LET start == clamped_start_timestamp(created_at, completed_at, department,
                                         project_type, start_raw)
    IN IF is_business_day(date(start))
       THEN replace_hms(start,
                        min(max(hour(start), work_start_hour), work_end_hour - 1),
                        minute_of(dr), dr.second)
       ELSE start

\* generate_task_lifecycle with the two metrics left unset
generate_task_lifecycle_nometrics(created_at, due_date, department, project_type, dr) ==
    LET probability == get_completion_probability(department, project_type,
                                                  created_at, due_date)
        empty == [exc |-> "none", created_at |-> created_at, started_at |-> None,
                  completed_at |-> None, cycle_time_days |-> None,
                  lead_time_days |-> None]
        completion == generate_completion_timestamp(created_at, due_date, department,
                          project_type, dr.base_raw, dr.u, dr.csnap)
        started == generate_started_timestamp(created_at, completion.value, department,
                          project_type, dr.start_raw, dr.ssnap)
    IN IF dr.r * RateScale < probability * RandomDen
       THEN IF completion.exc # "none"
            THEN [empty EXCEPT !.exc = completion.exc]
            ELSE [empty EXCEPT !.started_at = Some(started),
                               !.completed_at = Some(completion.value)]
       ELSE empty

\* generate_task_lifecycle: the returned dictionary, or the exception raised.
\* cycle_time_days and lead_time_days are kept as seconds (the numerator of
\* total_seconds() / 86400).
generate_task_lifecycle(created_at, due_date, department, project_type, dr) ==
    LET probability == get_completion_probability(department, project_type,
                                                  created_at, due_date)
        empty == [exc |-> "none", created_at |-> created_at, started_at |-> None,
                  completed_at |-> None, cycle_time_days |-> None,
                  lead_time_days |-> None]
        completion == generate_completion_timestamp(created_at, due_date, department,
                          project_type, dr.base_raw, dr.u, dr.csnap)
        started == generate_started_timestamp(created_at, completion.value, department,
                          project_type, dr.start_raw, dr.ssnap)
    IN IF dr.r * RateScale < probability * RandomDen
       THEN IF completion.exc # "none"
            THEN [empty EXCEPT !.exc = completion.exc]
            ELSE [exc |-> "none", created_at |-> created_at,
                  started_at |-> Some(started),
                  completed_at |-> Some(completion.value),
                  cycle_time_days |-> Some(completion.value - started),
                  lead_time_days |-> Some(completion.value - created_at)]
       ELSE empty

\* ------------------------------------------------------------------------
\* Python strings: str.lower() and the substring test `a in b`
\* ------------------------------------------------------------------------
LowerChar(c) ==
    CASE c = "B" -> "b"
      [] c = "D" -> "d"
      [] c = "P" -> "p"
      [] c = "S" -> "s"
      [] c = "T" -> "t"
      [] OTHER -> c

\* str.lower() over the characters of a string
lower(cs) == [i \in 1..Len(cs) |-> LowerChar(cs[i])]

\* a in b, for strings a and b
IsSubstring(a, b) ==
    \E i \in 0..(Len(b) - Len(a)) : \A j \in 1..Len(a) : b[i + j] = a[j]

\* dict.get(key, default) for an optional entry
Get(entry, default) == IF IsNone(entry) THEN default ELSE Val(entry)

\* round(x, ndigits) / round(x): round half to even to a multiple of unit
RoundHalfEven(x, unit) ==
    LET q == x \div unit
        r == x % unit
    IN IF 2 * r < unit THEN q * unit
       ELSE IF 2 * r > unit THEN (q + 1) * unit
       ELSE IF q % 2 = 0 THEN q * unit ELSE (q + 1) * unit

\* ------------------------------------------------------------------------
\* DistributionRegistry and BoundedSampler (generators/custom_fields.py)
\* ------------------------------------------------------------------------
\* Numbers of a number pattern and sampled numbers are integers in units of
\* 1 / NumScale; list weights are in units of 1/1000, boolean weights in
\* units of 1/100.
NumScale == 20

\* self.field_value_patterns as set by __init__
registered_patterns ==
    [ text |-> [
        engineering |-> <<
            "API endpoint",
            "database schema",
            "microservice",
            "container image",
            "CI/CD pipeline",
            "test coverage",
            "performance metric",
            "security scan",
            "code review",
            "documentation update",
            "refactoring target",
            "tech debt item" >>,
        product |-> <<
            "user story",
            "acceptance criteria",
            "feature flag",
            "A/B test",
            "user persona",
            "journey map",
            "wireframe",
            "prototype",
            "user feedback",
            "market research",
            "competitive analysis",
            "success metric" >>,
        marketing |-> <<
            "campaign name",
            "target audience",
            "channel strategy",
            "creative asset",
            "landing page",
            "email template",
            "social media post",
            "blog article",
            "SEO keyword",
            "conversion rate",
            "engagement metric",
            "brand guideline" >>,
        sales |-> <<
            "deal size",
            "sales stage",
            "probability",
            "close date",
            "account tier",
            "territory",
            "product line",
            "competitive landscape",
            "customer pain point",
            "ROI analysis",
            "implementation timeline",
            "stakeholder map" >>,
        operations |-> <<
            "process step",
            "approval workflow",
            "budget category",
            "resource allocation",
            "compliance requirement",
            "risk level",
            "vendor contract",
            "SLA metric",
            "cost center",
            "headcount plan",
            "training requirement",
            "policy document" >> ],
      number |-> [
        engineering |-> <<
          <<"story_points", [min |-> Some(20), max |-> Some(260), distribution |-> Some([kind |-> "list", weights |-> <<100, 200, 300, 200, 100, 50, 50>>]),
             mean |-> None, std |-> None]>>,
          <<"priority", [min |-> Some(20), max |-> Some(100), distribution |-> Some([kind |-> "list", weights |-> <<50, 150, 400, 300, 100>>]),
             mean |-> None, std |-> None]>>,
          <<"risk_level", [min |-> Some(20), max |-> Some(200), distribution |-> Some([kind |-> "list", weights |-> <<100, 100, 200, 200, 150, 100, 50, 50, 30, 20>>]),
             mean |-> None, std |-> None]>> >>,
        product |-> <<
          <<"ice_score", [min |-> Some(20), max |-> Some(2000), distribution |-> Some([kind |-> "normal", weights |-> <<>>]),
             mean |-> Some(1000), std |-> Some(400)]>>,
          <<"effort_level", [min |-> Some(20), max |-> Some(200), distribution |-> Some([kind |-> "list", weights |-> <<50, 100, 150, 200, 200, 150, 100, 30, 10, 10>>]),
             mean |-> None, std |-> None]>>,
          <<"impact_score", [min |-> Some(20), max |-> Some(200), distribution |-> Some([kind |-> "list", weights |-> <<20, 30, 50, 100, 200, 300, 200, 70, 20, 10>>]),
             mean |-> None, std |-> None]>> >>,
        marketing |-> <<
          <<"budget_usd", [min |-> Some(2000), max |-> Some(1000000), distribution |-> Some([kind |-> "lognormal", weights |-> <<>>]),
             mean |-> Some(50000), std |-> Some(30)]>>,
          <<"target_ctr", [min |-> Some(2), max |-> Some(200), distribution |-> Some([kind |-> "normal", weights |-> <<>>]),
             mean |-> Some(50), std |-> Some(20)]>>,
          <<"creative_assets", [min |-> Some(20), max |-> Some(400), distribution |-> Some([kind |-> "list", weights |-> <<100, 200, 300, 200, 100, 50, 30, 10, 5, 5>>]),
             mean |-> None, std |-> None]>> >>,
        sales |-> <<
          <<"deal_size", [min |-> Some(20000), max |-> Some(20000000), distribution |-> Some([kind |-> "lognormal", weights |-> <<>>]),
             mean |-> Some(1000000), std |-> Some(40)]>>,
          <<"probability", [min |-> Some(20), max |-> Some(2000), distribution |-> Some([kind |-> "list", weights |-> <<50, 50, 100, 150, 200, 200, 150, 50, 30, 20>>]),
             mean |-> None, std |-> None]>>,
          <<"timeline_weeks", [min |-> Some(20), max |-> Some(520), distribution |-> Some([kind |-> "normal", weights |-> <<>>]),
             mean |-> Some(160), std |-> Some(80)]>> >>,
        operations |-> <<
          <<"budget_impact", [min |-> Some(-200000), max |-> Some(200000), distribution |-> Some([kind |-> "normal", weights |-> <<>>]),
             mean |-> Some(0), std |-> Some(60000)]>>,
          <<"risk_score", [min |-> Some(20), max |-> Some(200), distribution |-> Some([kind |-> "list", weights |-> <<50, 50, 100, 150, 200, 200, 150, 70, 20, 10>>]),
             mean |-> None, std |-> None]>>,
          <<"resource_hours", [min |-> Some(20), max |-> Some(3200), distribution |-> Some([kind |-> "normal", weights |-> <<>>]),
             mean |-> Some(800), std |-> Some(600)]>> >> ],
      date |-> [
        engineering |-> <<
          <<"sprint_start", [offset_days |-> <<-30, 0>>]>>,
          <<"sprint_end", [offset_days |-> <<1, 14>>]>>,
          <<"release_date", [offset_days |-> <<7, 90>>]>> >>,
        marketing |-> <<
          <<"campaign_start", [offset_days |-> <<-7, 7>>]>>,
          <<"campaign_end", [offset_days |-> <<7, 60>>]>>,
          <<"content_publish", [offset_days |-> <<1, 30>>]>> >>,
        product |-> <<
          <<"research_deadline", [offset_days |-> <<3, 21>>]>>,
          <<"design_review", [offset_days |-> <<2, 14>>]>>,
          <<"launch_date", [offset_days |-> <<30, 180>>]>> >>,
        sales |-> <<
          <<"proposal_due", [offset_days |-> <<1, 7>>]>>,
          <<"demo_date", [offset_days |-> <<2, 14>>]>>,
          <<"close_date", [offset_days |-> <<14, 90>>]>> >>,
        operations |-> <<
          <<"approval_deadline", [offset_days |-> <<1, 14>>]>>,
          <<"implementation_date", [offset_days |-> <<7, 60>>]>>,
          <<"review_date", [offset_days |-> <<30, 120>>]>> >> ],
      enum |-> [
        engineering |-> <<
          <<"priority", <<"Critical", "High", "Medium", "Low">>>>,
          <<"component", <<"Frontend", "Backend", "Database", "API", "Infrastructure", "Security">>>>,
          <<"bug_severity", <<"Blocker", "Critical", "Major", "Minor", "Trivial">>>>,
          <<"environment", <<"Production", "Staging", "Development", "QA">>>> >>,
        product |-> <<
          <<"impact", <<"High", "Medium", "Low">>>>,
          <<"effort", <<"High", "Medium", "Low">>>>,
          <<"strategic_theme", <<"Growth", "Engagement", "Retention", "Monetization", "Efficiency">>>>,
          <<"customer_type", <<"Enterprise", "Mid-Market", "SMB", "Freemium">>>> >>,
        marketing |-> <<
          <<"campaign_type", <<"Product Launch", "Brand Awareness", "Lead Generation", "Customer Retention", "Event Promotion">>>>,
          <<"target_audience", <<"Enterprise", "Mid-Market", "SMB", "Developers", "End Users">>>>,
          <<"platform", <<"Social Media", "Email", "Web", "Print", "Video", "Paid Search">>>>,
          <<"content_type", <<"Blog Post", "Whitepaper", "Case Study", "Video", "Infographic", "Webinar">>>> >>,
        sales |-> <<
          <<"sales_stage", <<"Prospecting", "Qualification", "Proposal", "Negotiation", "Closed Won", "Closed Lost">>>>,
          <<"account_tier", <<"Enterprise", "Mid-Market", "SMB", "Strategic Partner">>>>,
          <<"deal_type", <<"New Business", "Expansion", "Renewal", "Cross-sell", "Up-sell">>>>,
          <<"probability", <<"10%", "25%", "50%", "75%", "90%">>>> >>,
        operations |-> <<
          <<"priority", <<"Critical", "High", "Medium", "Low">>>>,
          <<"risk_level", <<"High", "Medium", "Low">>>>,
          <<"deadline_type", <<"Hard Deadline", "Soft Deadline", "Milestone", "Nice to Have">>>>,
          <<"resource_type", <<"People", "Budget", "Time", "Tools", "External Services">>>> >> ],
      boolean |-> [
        engineering |-> <<
          <<"tech_debt", <<30, 70>>>>,
          <<"security_review", <<20, 80>>>>,
          <<"performance_critical", <<40, 60>>>>,
          <<"customer_facing", <<50, 50>>>> >>,
        product |-> <<
          <<"customer_request", <<60, 40>>>>,
          <<"regulatory_requirement", <<15, 85>>>>,
          <<"competitive_gap", <<25, 75>>>>,
          <<"revenue_impact", <<45, 55>>>> >>,
        marketing |-> <<
          <<"approved", <<80, 20>>>>,
          <<"published", <<70, 30>>>>,
          <<"requires_legal_review", <<20, 80>>>>,
          <<"a_b_test", <<30, 70>>>> >>,
        sales |-> <<
          <<"executive_sponsor", <<40, 60>>>>,
          <<"competitive_deal", <<35, 65>>>>,
          <<"renewal", <<25, 75>>>>,
          <<"requires_discount", <<30, 70>>>> >>,
        operations |-> <<
          <<"compliance_required", <<25, 75>>>>,
          <<"budget_approved", <<60, 40>>>>,
          <<"stakeholder_alignment", <<55, 45>>>>,
          <<"vendor_involved", <<35, 65>>>> >> ] ]

\* tables injected in place of the registered ones: an exact key and a key
\* that is a substring of it, in both orders, and number patterns with an
\* unknown kind and with no kind
bug_priority_pattern(field_type) ==
    CASE field_type = "enum" -> <<"P0", "P1", "P2">>
      [] field_type = "number" ->
            [min |-> Some(20), max |-> Some(60),
             distribution |-> Some([kind |-> "uniform", weights |-> <<>>]),
             mean |-> None, std |-> None]
      [] field_type = "date" -> [offset_days |-> <<1, 3>>]
      [] field_type = "boolean" -> <<90, 10>>

priority_pattern(field_type) ==
    CASE field_type = "enum" -> <<"Critical", "High", "Medium", "Low">>
      [] field_type = "number" ->
            [min |-> Some(20), max |-> Some(100),
             distribution |-> Some([kind |-> "list", weights |-> <<50, 150, 400, 300, 100>>]),
             mean |-> None, std |-> None]
      [] field_type = "date" -> [offset_days |-> <<7, 90>>]
      [] field_type = "boolean" -> <<30, 70>>

velocity_pattern ==
    [min |-> Some(4000), max |-> Some(6000),
     distribution |-> Some([kind |-> "exponential", weights |-> <<>>]),
     mean |-> None, std |-> None]

capacity_pattern ==
    [min |-> Some(4000), max |-> Some(6000), distribution |-> None,
     mean |-> None, std |-> None]

injected_entries(field_type, exact_first) ==
    LET exact == <<"bug_priority", bug_priority_pattern(field_type)>>
        sub == <<"priority", priority_pattern(field_type)>>
        pair == IF exact_first THEN <<exact, sub>> ELSE <<sub, exact>>
    IN IF field_type = "number"
       THEN pair \o << <<"velocity", velocity_pattern>>,
                       <<"capacity", capacity_pattern>> >>
       ELSE pair

injected_patterns(exact_first) ==
    [t \in {"enum", "number", "date", "boolean"} |->
        [d \in {"engineering"} |-> injected_entries(t, exact_first)]]

PatternTables == {"registered", "exact_first", "substring_first"}

\* self.field_value_patterns of the generator under the table in use
field_value_patterns(table) ==
    CASE table = "registered" -> registered_patterns
      [] table = "exact_first" -> injected_patterns(TRUE)
      [] table = "substring_first" -> injected_patterns(FALSE)

\* the characters of the strings that occur as keys and field names
Chars(s) ==
    CASE s = "Bug Severity" -> <<"B", "u", "g", " ", "S", "e", "v", "e", "r", "i", "t", "y">>
      [] s = "sprint" -> <<"s", "p", "r", "i", "n", "t">>
      [] s = "campaign" -> <<"c", "a", "m", "p", "a", "i", "g", "n">>
      [] s = "research" -> <<"r", "e", "s", "e", "a", "r", "c", "h">>
      [] s = "Priority" -> <<"P", "r", "i", "o", "r", "i", "t", "y">>
      [] s = "Story Points" -> <<"S", "t", "o", "r", "y", " ", "P", "o", "i", "n", "t", "s">>
      [] s = "Tech Debt" -> <<"T", "e", "c", "h", " ", "D", "e", "b", "t">>
      [] s = "a_b_test" -> <<"a", "_", "b", "_", "t", "e", "s", "t">>
      [] s = "account_tier" -> <<"a", "c", "c", "o", "u", "n", "t", "_", "t", "i", "e", "r">>
      [] s = "approval_deadline" -> <<"a", "p", "p", "r", "o", "v", "a", "l", "_", "d", "e", "a", "d", "l", "i", "n", "e">>
      [] s = "approved" -> <<"a", "p", "p", "r", "o", "v", "e", "d">>
      [] s = "budget_approved" -> <<"b", "u", "d", "g", "e", "t", "_", "a", "p", "p", "r", "o", "v", "e", "d">>
      [] s = "budget_impact" -> <<"b", "u", "d", "g", "e", "t", "_", "i", "m", "p", "a", "c", "t">>
      [] s = "budget_usd" -> <<"b", "u", "d", "g", "e", "t", "_", "u", "s", "d">>
      [] s = "bug_priority" -> <<"b", "u", "g", "_", "p", "r", "i", "o", "r", "i", "t", "y">>
      [] s = "bug_severity" -> <<"b", "u", "g", "_", "s", "e", "v", "e", "r", "i", "t", "y">>
      [] s = "campaign_end" -> <<"c", "a", "m", "p", "a", "i", "g", "n", "_", "e", "n", "d">>
      [] s = "campaign_start" -> <<"c", "a", "m", "p", "a", "i", "g", "n", "_", "s", "t", "a", "r", "t">>
      [] s = "campaign_type" -> <<"c", "a", "m", "p", "a", "i", "g", "n", "_", "t", "y", "p", "e">>
      [] s = "capacity" -> <<"c", "a", "p", "a", "c", "i", "t", "y">>
      [] s = "close_date" -> <<"c", "l", "o", "s", "e", "_", "d", "a", "t", "e">>
      [] s = "competitive_deal" -> <<"c", "o", "m", "p", "e", "t", "i", "t", "i", "v", "e", "_", "d", "e", "a", "l">>
      [] s = "competitive_gap" -> <<"c", "o", "m", "p", "e", "t", "i", "t", "i", "v", "e", "_", "g", "a", "p">>
      [] s = "compliance_required" -> <<"c", "o", "m", "p", "l", "i", "a", "n", "c", "e", "_", "r", "e", "q", "u", "i", "r", "e", "d">>
      [] s = "component" -> <<"c", "o", "m", "p", "o", "n", "e", "n", "t">>
      [] s = "content_publish" -> <<"c", "o", "n", "t", "e", "n", "t", "_", "p", "u", "b", "l", "i", "s", "h">>
      [] s = "content_type" -> <<"c", "o", "n", "t", "e", "n", "t", "_", "t", "y", "p", "e">>
      [] s = "creative_assets" -> <<"c", "r", "e", "a", "t", "i", "v", "e", "_", "a", "s", "s", "e", "t", "s">>
      [] s = "customer_facing" -> <<"c", "u", "s", "t", "o", "m", "e", "r", "_", "f", "a", "c", "i", "n", "g">>
      [] s = "customer_request" -> <<"c", "u", "s", "t", "o", "m", "e", "r", "_", "r", "e", "q", "u", "e", "s", "t">>
      [] s = "customer_type" -> <<"c", "u", "s", "t", "o", "m", "e", "r", "_", "t", "y", "p", "e">>
      [] s = "deadline_type" -> <<"d", "e", "a", "d", "l", "i", "n", "e", "_", "t", "y", "p", "e">>
      [] s = "deal_size" -> <<"d", "e", "a", "l", "_", "s", "i", "z", "e">>
      [] s = "deal_type" -> <<"d", "e", "a", "l", "_", "t", "y", "p", "e">>
      [] s = "demo_date" -> <<"d", "e", "m", "o", "_", "d", "a", "t", "e">>
      [] s = "design_review" -> <<"d", "e", "s", "i", "g", "n", "_", "r", "e", "v", "i", "e", "w">>
      [] s = "effort" -> <<"e", "f", "f", "o", "r", "t">>
      [] s = "effort_level" -> <<"e", "f", "f", "o", "r", "t", "_", "l", "e", "v", "e", "l">>
      [] s = "environment" -> <<"e", "n", "v", "i", "r", "o", "n", "m", "e", "n", "t">>
      [] s = "executive_sponsor" -> <<"e", "x", "e", "c", "u", "t", "i", "v", "e", "_", "s", "p", "o", "n", "s", "o", "r">>
      [] s = "ice_score" -> <<"i", "c", "e", "_", "s", "c", "o", "r", "e">>
      [] s = "impact" -> <<"i", "m", "p", "a", "c", "t">>
      [] s = "impact_score" -> <<"i", "m", "p", "a", "c", "t", "_", "s", "c", "o", "r", "e">>
      [] s = "implementation_date" -> <<"i", "m", "p", "l", "e", "m", "e", "n", "t", "a", "t", "i", "o", "n", "_", "d", "a", "t", "e">>
      [] s = "launch_date" -> <<"l", "a", "u", "n", "c", "h", "_", "d", "a", "t", "e">>
      [] s = "performance_critical" -> <<"p", "e", "r", "f", "o", "r", "m", "a", "n", "c", "e", "_", "c", "r", "i", "t", "i", "c", "a", "l">>
      [] s = "platform" -> <<"p", "l", "a", "t", "f", "o", "r", "m">>
      [] s = "priority" -> <<"p", "r", "i", "o", "r", "i", "t", "y">>
      [] s = "probability" -> <<"p", "r", "o", "b", "a", "b", "i", "l", "i", "t", "y">>
      [] s = "proposal_due" -> <<"p", "r", "o", "p", "o", "s", "a", "l", "_", "d", "u", "e">>
      [] s = "published" -> <<"p", "u", "b", "l", "i", "s", "h", "e", "d">>
      [] s = "regulatory_requirement" -> <<"r", "e", "g", "u", "l", "a", "t", "o", "r", "y", "_", "r", "e", "q", "u", "i", "r", "e", "m", "e", "n", "t">>
      [] s = "release_date" -> <<"r", "e", "l", "e", "a", "s", "e", "_", "d", "a", "t", "e">>
      [] s = "renewal" -> <<"r", "e", "n", "e", "w", "a", "l">>
      [] s = "requires_discount" -> <<"r", "e", "q", "u", "i", "r", "e", "s", "_", "d", "i", "s", "c", "o", "u", "n", "t">>
      [] s = "requires_legal_review" -> <<"r", "e", "q", "u", "i", "r", "e", "s", "_", "l", "e", "g", "a", "l", "_", "r", "e", "v", "i", "e", "w">>
      [] s = "research_deadline" -> <<"r", "e", "s", "e", "a", "r", "c", "h", "_", "d", "e", "a", "d", "l", "i", "n", "e">>
      [] s = "resource_hours" -> <<"r", "e", "s", "o", "u", "r", "c", "e", "_", "h", "o", "u", "r", "s">>
      [] s = "resource_type" -> <<"r", "e", "s", "o", "u", "r", "c", "e", "_", "t", "y", "p", "e">>
      [] s = "revenue_impact" -> <<"r", "e", "v", "e", "n", "u", "e", "_", "i", "m", "p", "a", "c", "t">>
      [] s = "review_date" -> <<"r", "e", "v", "i", "e", "w", "_", "d", "a", "t", "e">>
      [] s = "risk_level" -> <<"r", "i", "s", "k", "_", "l", "e", "v", "e", "l">>
      [] s = "risk_score" -> <<"r", "i", "s", "k", "_", "s", "c", "o", "r", "e">>
      [] s = "sales_stage" -> <<"s", "a", "l", "e", "s", "_", "s", "t", "a", "g", "e">>
      [] s = "security_review" -> <<"s", "e", "c", "u", "r", "i", "t", "y", "_", "r", "e", "v", "i", "e", "w">>
      [] s = "sprint_end" -> <<"s", "p", "r", "i", "n", "t", "_", "e", "n", "d">>
      [] s = "sprint_start" -> <<"s", "p", "r", "i", "n", "t", "_", "s", "t", "a", "r", "t">>
      [] s = "stakeholder_alignment" -> <<"s", "t", "a", "k", "e", "h", "o", "l", "d", "e", "r", "_", "a", "l", "i", "g", "n", "m", "e", "n", "t">>
      [] s = "story_points" -> <<"s", "t", "o", "r", "y", "_", "p", "o", "i", "n", "t", "s">>
      [] s = "strategic_theme" -> <<"s", "t", "r", "a", "t", "e", "g", "i", "c", "_", "t", "h", "e", "m", "e">>
      [] s = "target_audience" -> <<"t", "a", "r", "g", "e", "t", "_", "a", "u", "d", "i", "e", "n", "c", "e">>
      [] s = "target_ctr" -> <<"t", "a", "r", "g", "e", "t", "_", "c", "t", "r">>
      [] s = "tech_debt" -> <<"t", "e", "c", "h", "_", "d", "e", "b", "t">>
      [] s = "timeline_weeks" -> <<"t", "i", "m", "e", "l", "i", "n", "e", "_", "w", "e", "e", "k", "s">>
      [] s = "unknown_metric" -> <<"u", "n", "k", "n", "o", "w", "n", "_", "m", "e", "t", "r", "i", "c">>
      [] s = "velocity" -> <<"v", "e", "l", "o", "c", "i", "t", "y">>
      [] s = "vendor_involved" -> <<"v", "e", "n", "d", "o", "r", "_", "i", "n", "v", "o", "l", "v", "e", "d">>

\* self.field_value_patterns.get(field_type, {}).get(department, {})
dept_patterns(table, field_type, department) ==
    LET types == field_value_patterns(table)
    IN IF field_type \in DOMAIN types
       THEN IF department \in DOMAIN types[field_type]
            THEN types[field_type][department] ELSE <<>>
       ELSE <<>>

\* `if field_name in dept_patterns: return dept_patterns[field_name]`
exact_entry(entries, field_name) ==
    LET hits == {i \in 1..Len(entries) : Chars(entries[i][1]) = field_name}
    IN IF hits = {} THEN None ELSE Some(entries[CHOOSE i \in hits : TRUE][2])

\* `for category, pattern in dept_patterns.items(): if category in field_name`
substring_entry(entries, field_name) ==
    LET hits == {i \in 1..Len(entries) : IsSubstring(Chars(entries[i][1]), field_name)}
    IN IF hits = {} THEN None
       ELSE Some(entries[CHOOSE i \in hits : \A j \in hits : i <= j][2])

default_distribution(field_type) ==
    CASE field_type = "enum" -> <<"High", "Medium", "Low">>
      [] field_type = "number" ->
            [min |-> Some(1 * NumScale), max |-> Some(100 * NumScale),
             distribution |-> Some([kind |-> "uniform", weights |-> <<>>]),
             mean |-> None, std |-> None]
      [] field_type = "date" -> [offset_days |-> <<0, 30>>]
      [] field_type = "boolean" -> <<50, 50>>

\* mutant: the category loop runs without the exact-key test before it
get_field_value_distribution_noexact(table, field_definition, department, project_type) ==
    LET field_type == field_definition.field_type
        field_name == lower(Chars(field_definition.name))
        entries == dept_patterns(table, field_type, department)
        sub == substring_entry(entries, field_name)
    IN IF field_type \in {"enum", "number", "date", "boolean"}
       THEN IF ~IsNone(sub) THEN sub ELSE Some(default_distribution(field_type))
       ELSE IF field_type = "text"
       THEN IF Len(entries) > 0 THEN Some(entries)
            ELSE Some(<<"value1", "value2", "value3">>)
       ELSE None

\* mutant: no generic fallback after the category loop
get_field_value_distribution_nodefault(table, field_definition, department, project_type) ==
    LET field_type == field_definition.field_type
        field_name == lower(Chars(field_definition.name))
        entries == dept_patterns(table, field_type, department)
        exact == exact_entry(entries, field_name)
        sub == substring_entry(entries, field_name)
    IN IF field_type \in {"enum", "number", "date", "boolean"}
       THEN IF ~IsNone(exact) THEN exact ELSE sub
       ELSE IF field_type = "text"
       THEN IF Len(entries) > 0 THEN Some(entries)
            ELSE Some(<<"value1", "value2", "value3">>)
       ELSE None

\* _get_field_value_distribution: Some(distribution), or None
get_field_value_distribution(table, field_definition, department, project_type) ==
    LET field_type == field_definition.field_type
        field_name == lower(Chars(field_definition.name))
        entries == dept_patterns(table, field_type, department)
        exact == exact_entry(entries, field_name)
        sub == substring_entry(entries, field_name)
    IN IF field_type \in {"enum", "number", "date", "boolean"}
       THEN IF ~IsNone(exact) THEN exact
            ELSE IF ~IsNone(sub) THEN sub
            ELSE Some(default_distribution(field_type))
       ELSE IF field_type = "text"
       THEN IF Len(entries) > 0 THEN Some(entries)
            ELSE Some(<<"value1", "value2", "value3">>)
       ELSE None

\* draws of np.random.normal / np.random.lognormal for a number pattern: points
\* of the quarter grid (exact binary fractions, so round() ties are exact)
\* around min and max, and the mean
DrawSteps == 4

QuarterGrid(x) == (x \div 5) * 5

NumberDraws(lo, hi, mean) ==
    {QuarterGrid(lo) + 5 * k : k \in (-DrawSteps)..DrawSteps}
        \cup {QuarterGrid(hi) + 5 * k : k \in (-DrawSteps)..DrawSteps}
        \cup {QuarterGrid(mean)}

\* the draws one call of _generate_field_value consumes; u is drawn at 0, 0.5
\* and 0.9, where random.uniform(1, 100) is a multiple of 1 / NumScale
FieldDraws(field_type, distribution) ==
    LET spec == Val(distribution)
        kind == Get(spec.distribution, [kind |-> "uniform", weights |-> <<>>]).kind
        xs == IF field_type # "number" \/ IsNone(distribution) THEN {0}
              ELSE IF kind = "normal"
              THEN NumberDraws(Get(spec.min, 0), Get(spec.max, 100 * NumScale),
                               Get(spec.mean, 50 * NumScale))
              ELSE IF kind = "lognormal"
              THEN {x \in NumberDraws(Get(spec.min, 1 * NumScale),
                                      Get(spec.max, 1000 * NumScale),
                                      Get(spec.min, 1 * NumScale)) : x > 0}
              ELSE {0}
    IN [x : xs, u : RandomDraws \ {RandomDen - 1}, last : BOOLEAN]

\* random.choice(seq): the first or the last element
choice(seq, dr) == IF dr.last THEN seq[Len(seq)] ELSE seq[1]

\* random.randint(lo, hi): one of the end points
randint(lo, hi, dr) == IF dr.last THEN hi ELSE lo

\* the clamp of the 'normal' branch with the rounding that follows it
clamp_and_round_normal(value, min_val, max_val) ==
    LET clamped == max(min_val, min(max_val, value))
    IN IF max_val > 1000 * NumScale THEN RoundHalfEven(clamped, 100 * NumScale)
       ELSE IF max_val > 100 * NumScale THEN RoundHalfEven(clamped, 10 * NumScale)
       ELSE RoundHalfEven(clamped, NumScale \div 10)

\* the 'number' branch of _generate_field_value (lines 370-413):
\* [exc, value, raw, draws]; raw is the normal / log-normal draw, draws the
\* number of such draws made
generate_number_value(spec, dr) ==
    LET dist_type == Get(spec.distribution, [kind |-> "uniform", weights |-> <<>>])
        values == [i \in 1..((Get(spec.max, 10 * NumScale) \div NumScale)
                             - (Get(spec.min, 1 * NumScale) \div NumScale) + 1) |->
                      (Get(spec.min, 1 * NumScale) \div NumScale) + i - 1]
        plain(v) == [exc |-> "none", value |-> Some(v), raw |-> None, draws |-> 0]
    IN CASE dist_type.kind = "uniform" ->
                LET min_val == Get(spec.min, 1 * NumScale)
                    max_val == Get(spec.max, 100 * NumScale)
                IN plain(min_val + ((max_val - min_val) * dr.u) \div RandomDen)
         [] dist_type.kind = "normal" ->
                [exc |-> "none",
                 value |-> Some(clamp_and_round_normal(dr.x, Get(spec.min, 0),
                                                       Get(spec.max, 100 * NumScale))),
                 raw |-> Some(dr.x), draws |-> 1]
         [] dist_type.kind = "lognormal" ->
                LET min_val == Get(spec.min, 1 * NumScale)
                    max_val == Get(spec.max, 1000 * NumScale)
                IN [exc |-> "none",
                    value |-> Some(RoundHalfEven(max(min_val, min(max_val, dr.x)), NumScale)),
                    raw |-> Some(dr.x), draws |-> 1]
         [] dist_type.kind = "list" ->
                IF Len(dist_type.weights) # Len(values)
                THEN [exc |-> "ValueError", value |-> None, raw |-> None, draws |-> 0]
                ELSE plain(choice(values, dr) * NumScale)
         [] OTHER -> plain(randint(1, 100, dr) * NumScale)

\* json.loads(field_definition['enum_options']) followed by the isinstance test
\* and random.choice: enum_options is None or [parsed, items], parsed being
\* "list", "other" (valid JSON, not a list) or "error" (JSONDecodeError)
enum_options_value(enum_options, dr) ==
    IF IsNone(enum_options) \/ Val(enum_options).parsed # "list" THEN None
    ELSE IF Len(Val(enum_options).items) = 0 THEN Some("IndexError")
    ELSE Some(choice(Val(enum_options).items, dr))

\* _generate_field_value: [exc, value, raw, draws]; a date value is the day
\* number that strftime('%Y-%m-%d') prints. The name get_business_day_offset
\* of line 426 is bound by the import of line 26 only, and utils/temporal.py
\* defines no such module-level function: the name is not defined when the
\* method runs and the call of the business-day branch raises NameError.
generate_field_value(table, field_definition, department, project_type, task_created_at, dr) ==
    LET field_type == field_definition.field_type
        distribution == get_field_value_distribution(table, field_definition,
                                                     department, project_type)
        dist == Val(distribution)
        plain(v) == [exc |-> "none", value |-> Some(v), raw |-> None, draws |-> 0]
        nothing == [exc |-> "none", value |-> None, raw |-> None, draws |-> 0]
        from_options == enum_options_value(field_definition.enum_options, dr)
    IN IF IsNone(distribution) THEN nothing
       ELSE CASE field_type = "enum" ->
                    IF ~IsNone(from_options)
                    THEN IF Val(from_options) = "IndexError"
                         THEN [nothing EXCEPT !.exc = "IndexError"]
                         ELSE plain(Val(from_options))
                    ELSE plain(choice(dist, dr))
              [] field_type = "number" -> generate_number_value(dist, dr)
              [] field_type = "date" ->
                    LET offset_days == randint(dist.offset_days[1], dist.offset_days[2], dr)
                        value_date == task_created_at + offset_days * SecondsPerDay
                    IN IF dr.u * 100 < 85 * RandomDen
                       THEN [nothing EXCEPT !.exc = "NameError"]
                       ELSE plain(date(value_date))
              [] field_type = "boolean" ->
                    IF Len(dist) = 2 THEN plain(~dr.last)
                    ELSE plain(dr.u * 10 < 5 * RandomDen)
              [] field_type = "text" -> plain(choice(dist, dr))
              [] OTHER -> nothing

\* ------------------------------------------------------------------------
\* Comment timing sampler (generators/comments.py)
\* ------------------------------------------------------------------------
\* self.comment_timing_patterns, hours as seconds
comment_timing_patterns(name) ==
    CASE name = "first_comment" ->
            [mean |-> 16200, std |-> 10800, min |-> 1800, max |-> 86400]
      [] name = "subsequent_comments" ->
            [mean |-> 28800, std |-> 21600, min |-> 3600, max |-> 172800]
      [] name = "completion_comments" ->
            [mean |-> 7200, std |-> 5400, min |-> 1800, max |-> 43200]

\* `for _ in range(10)`
max_attempts == 10

\* draws of np.random.normal(mean, std) for a timing pattern: below min (one of
\* them negative), the bounds, the mean, above max
OffsetDraws(cfg) ==
    {-3600, cfg.min - 1, cfg.min, cfg.mean, cfg.max, cfg.max + 1}

\* mutant: on exhaustion the offset is clamped to the nearer bound
fallback_offset_clamped(cfg, last_draw) ==
    max(cfg.min, min(cfg.max, last_draw))

\* the else branch of the retry loop: `offset_hours = mean_hours`
fallback_offset(cfg, last_draw) == cfg.mean

\* the retry loop of _get_realistic_comment_timestamp (lines 497-503) from
\* attempt number `attempt` on: the possible [offset_hours, attempts, last_draw]
RECURSIVE sample_offset(_, _)
sample_offset(cfg, attempt) ==
    LET accepted == {d \in OffsetDraws(cfg) : cfg.min <= d /\ d <= cfg.max}
        rejected == OffsetDraws(cfg) \ accepted
        rest == IF attempt < max_attempts
                THEN sample_offset(cfg, attempt + 1)
                ELSE {[offset_hours |-> fallback_offset(cfg, d), attempts |-> attempt,
                       last_draw |-> d] : d \in rejected}
    IN {[offset_hours |-> d, attempts |-> attempt, last_draw |-> d] : d \in accepted}
          \cup (IF rejected = {} THEN {} ELSE rest)

\* the timing pattern chosen by lines 485-490
timing_config_name(task_completed_at, comment_sequence, total_comments) ==
    IF comment_sequence = 0 THEN "first_comment"
    ELSE IF comment_sequence = total_comments - 1 /\ ~IsNone(task_completed_at)
    THEN "completion_comments"
    ELSE "subsequent_comments"

\* _get_realistic_comment_timestamp after the retry loop (lines 505-547):
\* [exc, value]; sample is the loop's outcome, dr = [r1, minute_hi, r2] the
\* later draws. comments.py never imports or defines get_business_day_offset,
\* so the call of line 545 raises NameError.
get_realistic_comment_timestamp(task_created_at, task_completed_at, comment_sequence, total_comments, current_time, sample, dr) ==
    LET timing_config == comment_timing_patterns(
            timing_config_name(task_completed_at, comment_sequence, total_comments))
        last == comment_sequence # 0 /\ comment_sequence = total_comments - 1
                    /\ ~IsNone(task_completed_at)
        base_timestamp ==
            IF comment_sequence = 0 THEN task_created_at
            ELSE IF last THEN Val(task_completed_at)
            ELSE task_created_at + comment_sequence * timing_config.mean
        offset_hours == IF last THEN -abs(sample.offset_hours) ELSE sample.offset_hours
        ts0 == base_timestamp + offset_hours
        min_timestamp == task_created_at + 30 * 60
        max_timestamp == IF ~IsNone(task_completed_at) THEN Val(task_completed_at)
                         ELSE current_time
        ts1 == IF ts0 < min_timestamp THEN min_timestamp ELSE ts0
        ts2 == IF ts1 > max_timestamp THEN max_timestamp ELSE ts1
        ts3 == IF dr.r1 * 100 < 85 * RandomDen
               THEN IF hour(ts2) < 9
                    THEN date(ts2) * SecondsPerDay + 9 * SecondsPerHour
                            + minute_of(dr) * 60 + (ts2 % 60)
                    ELSE IF hour(ts2) > 18
                    THEN date(ts2) * SecondsPerDay + 18 * SecondsPerHour
                            + minute_of(dr) * 60 + (ts2 % 60)
                    ELSE ts2
               ELSE ts2
    IN IF weekday(date(ts3)) >= 5 /\ dr.r2 * 10 < 8 * RandomDen
       THEN [exc |-> "NameError", value |-> None]
       ELSE [exc |-> "none", value |-> Some(ts3)]

\* ------------------------------------------------------------------------
\* State: one record per modelled call; a specification leaves the records of
\* the calls it does not make idle
\* ------------------------------------------------------------------------
CalIdle == [pc |-> "idle", base |-> 0, n |-> 0, result |-> 0, back |-> 0]

LifeIdle ==
    [pc |-> "idle", created_at |-> 0, due_date |-> None, department |-> "",
     project_type |-> "", now |-> 0, r |-> None, completion |-> None,
     result |-> None]

FldIdle ==
    [pc |-> "idle", table |-> "registered",
     field_definition |-> [name |-> "priority", field_type |-> "enum",
                           enum_options |-> None],
     department |-> "", project_type |-> "", task_created_at |-> 0,
     distribution |-> None, result |-> None]

CmtIdle ==
    [pc |-> "idle", task_created_at |-> 0, task_completed_at |-> None,
     comment_sequence |-> 0, total_comments |-> 0, current_time |-> 0,
     sample |-> None, result |-> None]

DstIdle == [pc |-> "idle"]

ValIdle == [pc |-> "idle"]

StsIdle ==
    [pc |-> "idle", status |-> [current |-> "active", history |-> <<>>,
                                last_updated |-> 0],
     clock |-> 0, new_status |-> None, exc |-> "none"]

PrbIdle == [pc |-> "idle"]

RtsIdle == [pc |-> "idle"]

TskIdle == [pc |-> "idle"]

\* ------------------------------------------------------------------------
\* Calendar specification: offsets and round trips over a window of dates
\* ------------------------------------------------------------------------
MaxBaseDay == 16

MaxOffset == 3

TimesOfDay == {0, 37800, 86399}

CalInit ==
    /\ cal \in {[pc |-> "input", base |-> d * SecondsPerDay + tod, n |-> k,
                 result |-> 0, back |-> 0] :
                    d \in 0..MaxBaseDay, tod \in TimesOfDay,
                    k \in (-MaxOffset)..MaxOffset}
    /\ life = LifeIdle
    /\ fld = FldIdle
    /\ cmt = CmtIdle
    /\ dst = DstIdle
    /\ val = ValIdle
    /\ sts = StsIdle
    /\ prb = PrbIdle
    /\ rts = RtsIdle
    /\ tsk = TskIdle

CalOffset ==
    /\ cal.pc = "input"
    /\ cal' = [cal EXCEPT !.pc = "offset",
                          !.result = get_business_day_offset(cal.base, cal.n)]
    /\ UNCHANGED <<life, fld, cmt, dst, val, sts, prb, rts, tsk>>

CalRoundTrip ==
    /\ cal.pc = "offset"
    /\ cal' = [cal EXCEPT !.pc = "roundtrip",
                          !.back = get_business_day_offset(cal.result, -cal.n)]
    /\ UNCHANGED <<life, fld, cmt, dst, val, sts, prb, rts, tsk>>

CalNext == CalOffset \/ CalRoundTrip

SpecCalendar == CalInit /\ [][CalNext]_vars

\* number of business days d with lo < d <= hi
business_days_between(lo, hi) ==
    Cardinality({d \in (lo + 1)..hi : is_business_day(d)})

\* C7: get_business_day_offset(base, n) returns base for n = 0; for n # 0 the
\* result is a business day on the side of base given by the sign of n, with
\* exactly |n| business days between base (exclusive) and the result
\* (inclusive), and the time of day of base.
C7_OffsetCorrect ==
    cal.pc \in {"offset", "roundtrip"} =>
        /\ cal.n = 0 => cal.result = cal.base
        /\ cal.n # 0 =>
            /\ is_business_day(date(cal.result))
            /\ cal.result % SecondsPerDay = cal.base % SecondsPerDay
            /\ cal.n > 0 =>
                /\ cal.result > cal.base
                /\ business_days_between(date(cal.base), date(cal.result)) = cal.n
            /\ cal.n < 0 =>
                /\ cal.result < cal.base
                /\ business_days_between(date(cal.result) - 1, date(cal.base) - 1) = -cal.n

\* C7 witness: an offset whose walk skips a weekend and a holiday
C7_Witness ==
    /\ cal.pc = "offset"
    /\ cal.n = 3
    /\ date(cal.base) = 2
    /\ date(cal.result) = 8

\* C6 (as claimed): the round trip returns d for every date d, business day or
\* not, and every n >= 0, when no holiday lies on d or on the days reached
C6_RoundTripAnyDate ==
    (cal.pc = "roundtrip" /\ cal.n >= 0
        /\ date(cal.base) \notin holiday_calendar
        /\ date(cal.result) \notin holiday_calendar
        /\ date(cal.back) \notin holiday_calendar) => cal.back = cal.base

\* C6 (amended): the round trip returns d when d is a business day, or n = 0
C6_RoundTripBusinessDay ==
    (cal.pc = "roundtrip" /\ cal.n >= 0
        /\ (is_business_day(date(cal.base)) \/ cal.n = 0)) =>
            cal.back = cal.base

\* C6 witness: a round trip from a business day across a weekend and a holiday
C6_Witness ==
    /\ cal.pc = "roundtrip"
    /\ cal.n = 3
    /\ date(cal.base) = 2
    /\ date(cal.result) = 8
    /\ cal.back = cal.base

\* ------------------------------------------------------------------------
\* Lifecycle specification: one call of generate_task_lifecycle per behaviour
\* ------------------------------------------------------------------------
\* creation times: Friday 2026-01-02 09:30:00, Saturday 2026-01-03 22:00:00,
\* Monday 2026-01-05 15:00:00, Tuesday 2026-01-06 17:45:00
CreatedChoices == {4 * 86400 + 34200, 5 * 86400 + 79200,
                   7 * 86400 + 54000, 8 * 86400 + 63900}

\* due dates relative to the creation time, in seconds: a day before, half an
\* hour, an hour, twelve hours, two days and four hours, forty days after
DueOffsets == {-86400, 1800, 3600, 43200, 187200, 3456000}

LifeDepartments == {"engineering", "sales"}

LifeProjectTypes == {"sprint", "research"}

\* the clock is up to MaxNowLagDays days past the creation time
MaxNowLagDays == 1

\* log-normal draws, in seconds: below the lower clamp, inside, above the
\* upper clamp
BaseRawDraws == {600, 9000, 2000000}

StartRawDraws == {60, 16200}

LifecycleDraws ==
    [r : RandomDraws, base_raw : BaseRawDraws, u : RandomDraws,
     csnap : SnapDraws, start_raw : StartRawDraws,
     ssnap : [minute_hi : BOOLEAN, second : SecondDraws]]

DueChoices(c) == {None} \cup {Some(c + off) : off \in DueOffsets}

LifeInputs(c) ==
    {[pc |-> "input", created_at |-> c, due_date |-> dd,
      department |-> dept, project_type |-> pt,
      now |-> c + lag * SecondsPerDay, r |-> None, completion |-> None,
      result |-> None] :
        dd \in DueChoices(c), dept \in LifeDepartments,
        pt \in LifeProjectTypes, lag \in 0..MaxNowLagDays}

LifeInit ==
    /\ cal = CalIdle
    /\ fld = FldIdle
    /\ cmt = CmtIdle
    /\ dst = DstIdle
    /\ val = ValIdle
    /\ sts = StsIdle
    /\ prb = PrbIdle
    /\ rts = RtsIdle
    /\ tsk = TskIdle
    /\ life \in UNION {LifeInputs(c) : c \in CreatedChoices}

GenerateTaskLifecycle ==
    /\ life.pc = "input"
    /\ \E dr \in LifecycleDraws :
          life' = [life EXCEPT !.pc = "done", !.r = Some(dr.r),
                      !.completion =
                          IF dr.r * RateScale
                                < get_completion_probability(life.department,
                                      life.project_type, life.created_at,
                                      life.due_date) * RandomDen
                          THEN Some([unanchored |->
                                        unanchored_completion_timestamp(life.created_at,
                                            life.due_date, life.department,
                                            life.project_type, dr.base_raw),
                                     anchored |->
                                        raw_completion_timestamp(life.created_at,
                                            life.due_date, life.department,
                                            life.project_type, dr.base_raw, dr.u)])
                          ELSE None,
                      !.result = Some(generate_task_lifecycle(life.created_at,
                                    life.due_date, life.department,
                                    life.project_type, dr))]
    /\ UNCHANGED <<cal, fld, cmt, dst, val, sts, prb, rts, tsk>>

LifeNext == GenerateTaskLifecycle

SpecLifecycle == LifeInit /\ [][LifeNext]_vars

\* a lifecycle record was returned with completed_at set
LifeCompleted ==
    /\ life.pc = "done"
    /\ Val(life.result).exc = "none"
    /\ ~IsNone(Val(life.result).completed_at)

\* C1: every returned record with completed_at set has
\* created_at <= started_at <= completed_at
C1_OrderingInvariant ==
    LifeCompleted =>
        /\ Val(life.result).created_at <= Val(Val(life.result).started_at)
        /\ Val(Val(life.result).started_at) <= Val(Val(life.result).completed_at)

\* C2: a returned record with completed_at set whose due date is strictly later
\* than created_at has completed_at <= due_date
C2_CompletedBeforeDue ==
    (LifeCompleted /\ ~IsNone(life.due_date)
        /\ Val(life.due_date) > life.created_at) =>
            Val(Val(life.result).completed_at) <= Val(life.due_date)

\* C3: a returned record with completed_at set and created_at not in the future
\* has completed_at <= now
C3_CompletedBeforeNow ==
    (LifeCompleted /\ life.created_at <= life.now) =>
        Val(Val(life.result).completed_at) <= life.now

\* ------------------------------------------------------------------------
\* Sampling specification: one call of _generate_field_value, or one call of
\* _get_realistic_comment_timestamp, per behaviour
\* ------------------------------------------------------------------------
FieldNames ==
    {"story_points", "priority", "risk_level", "ice_score", "effort_level",
     "impact_score", "budget_usd", "target_ctr", "creative_assets", "deal_size",
     "probability", "timeline_weeks", "budget_impact", "risk_score",
     "resource_hours", "bug_priority", "Priority", "Story Points", "velocity",
     "capacity", "unknown_metric"}

FieldTypes == {"enum", "number", "date", "boolean", "text"}

FieldDepartments ==
    {"engineering", "product", "marketing", "sales", "operations", "legal"}

EnumOptions(field_type) ==
    IF field_type = "enum"
    THEN {None,
          Some([parsed |-> "list", items |-> <<"Critical", "High", "Medium", "Low">>]),
          Some([parsed |-> "list", items |-> <<>>]),
          Some([parsed |-> "error", items |-> <<>>])}
    ELSE {None}

FieldDefinitions ==
    UNION {{[name |-> n, field_type |-> t, enum_options |-> o] :
                n \in FieldNames, o \in EnumOptions(t)} : t \in FieldTypes}

\* Monday 2026-01-05 15:00:00
FieldCreatedAt == 7 * 86400 + 54000

FldInit ==
    /\ cal = CalIdle
    /\ life = LifeIdle
    /\ cmt = CmtIdle
    /\ dst = DstIdle
    /\ val = ValIdle
    /\ sts = StsIdle
    /\ prb = PrbIdle
    /\ rts = RtsIdle
    /\ tsk = TskIdle
    /\ fld \in [pc : {"input"}, table : PatternTables,
                field_definition : FieldDefinitions,
                department : FieldDepartments, project_type : {"sprint"},
                task_created_at : {FieldCreatedAt},
                distribution : {None}, result : {None}]

GenerateFieldValue ==
    /\ fld.pc = "input"
    /\ LET distribution == get_field_value_distribution(fld.table,
                               fld.field_definition, fld.department, fld.project_type)
       IN \E dr \in FieldDraws(fld.field_definition.field_type, distribution) :
             fld' = [fld EXCEPT !.pc = "done",
                        !.distribution = distribution,
                        !.result = Some(generate_field_value(fld.table,
                                      fld.field_definition, fld.department,
                                      fld.project_type, fld.task_created_at, dr))]
    /\ UNCHANGED <<cal, life, cmt, dst, val, sts, prb, rts, tsk>>

MaxComments == 3

\* completion times relative to the creation time: ten minutes, two days
CompletedOffsets == {600, 172800}

CommentInputs(c) ==
    {[pc |-> "input", task_created_at |-> c, task_completed_at |-> done,
      comment_sequence |-> seq, total_comments |-> total,
      current_time |-> c + lag * SecondsPerDay,
      sample |-> None, result |-> None] :
        done \in {None} \cup {Some(c + off) : off \in CompletedOffsets},
        total \in 1..MaxComments, seq \in 0..(MaxComments - 1),
        lag \in 0..MaxNowLagDays}

CmtInit ==
    /\ cal = CalIdle
    /\ life = LifeIdle
    /\ fld = FldIdle
    /\ dst = DstIdle
    /\ val = ValIdle
    /\ sts = StsIdle
    /\ prb = PrbIdle
    /\ rts = RtsIdle
    /\ tsk = TskIdle
    /\ cmt \in {c \in UNION {CommentInputs(t) : t \in {5 * 86400 + 79200, 7 * 86400 + 54000,
                                                   7 * 86400 + 68400}} :
                    c.comment_sequence < c.total_comments}

GetRealisticCommentTimestamp ==
    /\ cmt.pc = "input"
    /\ LET cfg == comment_timing_patterns(timing_config_name(cmt.task_completed_at,
                      cmt.comment_sequence, cmt.total_comments))
       IN \E sample \in sample_offset(cfg, 1),
             dr \in [r1 : RandomDraws, minute_hi : BOOLEAN, r2 : RandomDraws] :
             cmt' = [cmt EXCEPT !.pc = "done",
                        !.sample = Some(sample),
                        !.result = Some(get_realistic_comment_timestamp(
                            cmt.task_created_at, cmt.task_completed_at,
                            cmt.comment_sequence, cmt.total_comments,
                            cmt.current_time, sample, dr))]
    /\ UNCHANGED <<cal, life, fld, dst, val, sts, prb, rts, tsk>>

SamplingInit == FldInit \/ CmtInit

SamplingNext == GenerateFieldValue \/ GetRealisticCommentTimestamp

SpecSampling == SamplingInit /\ [][SamplingNext]_vars

\* a number value was returned for a pattern with the given kinds
FldNumberDone ==
    /\ fld.pc = "done"
    /\ fld.field_definition.field_type = "number"
    /\ Val(fld.result).exc = "none"
    /\ ~IsNone(Val(fld.result).value)

FldKind ==
    Get(Val(fld.distribution).distribution, [kind |-> "uniform", weights |-> <<>>]).kind

\* C4: every number returned for a resolved pattern of kind uniform, normal,
\* lognormal or weight list that carries min and max lies in [min, max]
C4_BoundsInvariant ==
    (FldNumberDone /\ FldKind \in {"uniform", "normal", "lognormal", "list"}
        /\ ~IsNone(Val(fld.distribution).min) /\ ~IsNone(Val(fld.distribution).max)) =>
            /\ Val(Val(fld.distribution).min) <= Val(Val(fld.result).value)
            /\ Val(Val(fld.result).value) <= Val(Val(fld.distribution).max)

\* the comment sampler's retry policy: a draw is accepted only inside
\* [min, max], at most 10 draws are made, and on exhaustion the mean is returned
CmtRetryPolicy ==
    cmt.pc = "done" =>
        LET cfg == comment_timing_patterns(timing_config_name(cmt.task_completed_at,
                       cmt.comment_sequence, cmt.total_comments))
            s == Val(cmt.sample)
            inside == cfg.min <= s.last_draw /\ s.last_draw <= cfg.max
        IN /\ s.attempts <= 10
           /\ inside => s.offset_hours = s.last_draw
           /\ ~inside => (s.attempts = 10 /\ s.offset_hours = cfg.mean)

\* C5: in both samplers a bounded-normal draw outside [min, max] is
\* never returned clamped: the comment sampler follows the retry policy, and a
\* 'normal' number field whose draws all fall outside [min, max] returns the mean
C5_MeanFallbackEverywhere ==
    /\ CmtRetryPolicy
    /\ (FldNumberDone /\ FldKind = "normal") =>
          LET spec == Val(fld.distribution)
              raw == Val(Val(fld.result).raw)
          IN /\ Val(fld.result).draws <= 10
             /\ (raw < Get(spec.min, 0) \/ raw > Get(spec.max, 100 * NumScale)) =>
                    Val(Val(fld.result).value) = Get(spec.mean, 50 * NumScale)

\* the entries of the table the call resolves in
FldEntries == dept_patterns(fld.table, fld.field_definition.field_type, fld.department)

FldName == lower(Chars(fld.field_definition.name))

\* C8: when the department's table holds an entry whose key equals the field
\* name and another entry whose key is a substring of the field name, the
\* exact-key entry is returned, for enum, number, date and boolean fields
C8_ExactBeforeSubstring ==
    (fld.pc = "done" /\ fld.field_definition.field_type \in {"enum", "number", "date", "boolean"}) =>
        \A i \in 1..Len(FldEntries) :
            (/\ Chars(FldEntries[i][1]) = FldName
             /\ \E j \in 1..Len(FldEntries) :
                    j # i /\ IsSubstring(Chars(FldEntries[j][1]), FldName)) =>
                fld.distribution = Some(FldEntries[i][2])

\* C8 witness: the substring key precedes the exact key in the table
C8_Witness ==
    /\ fld.pc = "done"
    /\ fld.table = "substring_first"
    /\ fld.department = "engineering"
    /\ fld.field_definition.name = "bug_priority"
    /\ fld.field_definition.field_type = "number"
    /\ fld.distribution = Some(bug_priority_pattern("number"))

\* no entry of the table matches the field name, exactly or as a substring
FldUnmapped ==
    \A i \in 1..Len(FldEntries) : ~IsSubstring(Chars(FldEntries[i][1]), FldName)

\* C9: resolution returns a distribution for every department, field name and
\* value kind; with no mapping the default is used and the field is neither
\* dropped nor aborted: a value is generated (unless the field's own
\* enum_options decide the value)
C9_ResolutionNeverFails ==
    fld.pc = "done" =>
        /\ ~IsNone(fld.distribution)
        /\ (fld.field_definition.field_type # "text" /\ FldUnmapped) =>
              fld.distribution = Some(default_distribution(fld.field_definition.field_type))
        /\ ((fld.field_definition.field_type = "text" \/ FldUnmapped)
                /\ IsNone(fld.field_definition.enum_options)) =>
              /\ Val(fld.result).exc = "none"
              /\ ~IsNone(Val(fld.result).value)

\* the values random.uniform(min, max) can return on the draw grid
UniformValues(lo, hi) == {lo + ((hi - lo) * i) \div RandomDen : i \in RandomDraws}

\* C10: a resolved number pattern whose kind is none of uniform, normal,
\* lognormal or a weight list, or that names no kind, is sampled as a uniform
\* draw over its own [min, max]
C10_UnknownKindUniform ==
    (FldNumberDone
        /\ (FldKind \notin {"uniform", "normal", "lognormal", "list"}
               \/ IsNone(Val(fld.distribution).distribution))) =>
            Val(Val(fld.result).value) \in
                UniformValues(Get(Val(fld.distribution).min, 1 * NumScale),
                              Get(Val(fld.distribution).max, 100 * NumScale))

\* C11: sampling a registered number pattern whose kind is a weight list
\* raises nothing and returns one whole value of min..max
C11_WeightedNeverRaises ==
    (fld.pc = "done" /\ fld.table = "registered"
        /\ fld.field_definition.field_type = "number"
        /\ ~IsNone(fld.distribution) /\ FldKind = "list") =>
            /\ Val(fld.result).exc = "none"
            /\ ~IsNone(Val(fld.result).value)
            /\ Val(Val(fld.result).value) % NumScale = 0
            /\ Val(Val(fld.distribution).min) <= Val(Val(fld.result).value)
            /\ Val(Val(fld.result).value) <= Val(Val(fld.distribution).max)

\* ------------------------------------------------------------------------
\* DataValidator (utils/validation.py): distribution checks.
\* A distribution is [w, den]: bucket i has probability w[i] / den, and a
\* bucket of weight 0 is a key the dictionary does not hold. Divergences and
\* logarithms are in units of 1 / KlScale, rates and thresholds in percent.
\* ------------------------------------------------------------------------
KlScale == 100000

\* np.log(2) in units of 1 / KlScale
Ln2 == 69315

\* the due-date buckets of the SQL CASE of lines 521-527, in its order
due_date_buckets == <<"0-1_days", "2-3_days", "4-7_days", "8-14_days", "15+_days">>

\* benchmark_distributions['due_date_distributions'] (lines 75-90)
benchmark_due_date_distributions(benchmark_key) ==
    IF benchmark_key = "sprint_tasks"
    THEN [w |-> <<15, 25, 30, 20, 10>>, den |-> 100]
    ELSE [w |-> <<5, 10, 25, 35, 25>>, den |-> 100]

\* completion_rate_thresholds (lines 57-64), in percent
completion_rate_thresholds(proj_type) ==
    CASE proj_type = "sprint" -> <<65, 90>>
      [] proj_type = "bug_tracking" -> <<55, 75>>
      [] proj_type = "feature_development" -> <<45, 70>>
      [] proj_type = "research" -> <<25, 50>>
      [] proj_type = "campaign" -> <<60, 85>>
      [] OTHER -> <<45, 75>>

RECURSIVE SumSeq(_)
SumSeq(seq) == IF seq = <<>> THEN 0 ELSE Head(seq) + SumSeq(Tail(seq))

\* np.log(n / d) for 1 <= n / d < 2: 2 * atanh((n - d) / (n + d)) by its series
ln_mantissa(n, d) ==
    LET z == ((n - d) * KlScale) \div (n + d)
        z2 == (z * z) \div KlScale
        z3 == (z2 * z) \div KlScale
        z5 == (z3 * z2) \div KlScale
        z7 == (z5 * z2) \div KlScale
        z9 == (z7 * z2) \div KlScale
    IN 2 * (z + z3 \div 3 + z5 \div 5 + z7 \div 7 + z9 \div 9)

\* np.log(n / d) of line 742 for n, d > 0
RECURSIVE ln_ratio(_, _)
ln_ratio(n, d) ==
    IF n < d THEN -ln_ratio(d, n)
    ELSE IF n >= 2 * d THEN Ln2 + ln_ratio(n, 2 * d)
    ELSE ln_mantissa(n, d)

\* _calculate_kl_divergence (lines 708-744). Smoothing adds epsilon = 1e-10 to
\* every bucket, which moves no probability by the model's resolution: a
\* bucket that dist1 lacks has p = 1e-10 and contributes p * log(p / q) = 0.
\* Normalisation divides each weight by the sum of its distribution. Every
\* bucket of dist1 is a bucket of dist2.
calculate_kl_divergence(dist1, dist2) ==
    LET sum1 == SumSeq(dist1.w)
        sum2 == SumSeq(dist2.w)
        term(i) == IF dist1.w[i] = 0 THEN 0
                   ELSE dist1.w[i] * ln_ratio(dist1.w[i] * sum2, dist2.w[i] * sum1)
    IN SumSeq([i \in 1..Len(dist1.w) |-> term(i)]) \div sum1

\* the status of one due-date segment (line 676)
due_date_segment_status_strict(kl_divergence, distribution_similarity_threshold) ==
    IF kl_divergence < distribution_similarity_threshold THEN "success" ELSE "failure"

due_date_segment_status(kl_divergence, distribution_similarity_threshold) ==
    IF kl_divergence <= distribution_similarity_threshold THEN "success" ELSE "failure"

\* 'sprint' in proj_type.lower() (line 663)
due_date_benchmark_key(proj_type) ==
    IF IsSubstring(Chars("sprint"), lower(Chars(proj_type)))
    THEN "sprint_tasks" ELSE "campaign_tasks"

\* the rows of query 1 (lines 502-514): one row per (department, project_type)
\* group of tasks, groups of fewer than 10 tasks left out by HAVING
completion_rate_rows(segments) ==
    SelectSeq(segments, LAMBDA g : g.total_tasks >= 10)

\* the rows of query 2 (lines 517-534) grouped as lines 656-661 group them: one
\* entry per group that has a task with a due date, holding the count of every
\* bucket (0 for a bucket with no row)
due_date_groups(segments) ==
    SelectSeq(segments, LAMBDA g : SumSeq(g.due_counts) > 0)

CountFailures(details) ==
    Cardinality({i \in 1..Len(details) : details[i].status = "failure"})

\* _validate_completion_rates (lines 593-643) on the rows of query 1
validate_completion_rates(completion_rates) ==
    LET row(g) ==
            LET thresholds == completion_rate_thresholds(g.project_type)
                outside == g.completed_tasks * 100 < thresholds[1] * g.total_tasks
                              \/ g.completed_tasks * 100 > thresholds[2] * g.total_tasks
            IN [department |-> g.department, project_type |-> g.project_type,
                status |-> IF outside THEN "failure" ELSE "success",
                sample_size |-> g.total_tasks]
        details == [i \in 1..Len(completion_rates) |-> row(completion_rates[i])]
    IN [status |-> IF CountFailures(details) > 0 THEN "failure" ELSE "success",
        details |-> details]

\* _validate_due_date_distributions (lines 645-706) on the groups of query 2
validate_due_date_distributions(groups, distribution_similarity_threshold) ==
    LET row(g) ==
            LET total_tasks == SumSeq(g.due_counts)
                benchmark_dist == benchmark_due_date_distributions(
                                      due_date_benchmark_key(g.project_type))
                observed_dist == [w |-> g.due_counts, den |-> total_tasks]
                kl_divergence == calculate_kl_divergence(observed_dist, benchmark_dist)
            IN [department |-> g.department, project_type |-> g.project_type,
                kl_divergence |-> kl_divergence,
                status |-> due_date_segment_status(kl_divergence,
                                                   distribution_similarity_threshold),
                observed_distribution |-> observed_dist,
                benchmark_distribution |-> benchmark_dist,
                sample_size |-> total_tasks]
        details == [i \in 1..Len(groups) |-> row(groups[i])]
    IN [status |-> IF CountFailures(details) > 0 THEN "failure" ELSE "success",
        details |-> details]

\* ------------------------------------------------------------------------
\* Distribution checks specification: the completion-rate and the due-date
\* check over a corpus of (department, project_type) groups of tasks
\* ------------------------------------------------------------------------
MaxSegments == 2

SegmentProjectTypes == {"sprint", "campaign", "research"}

\* [total_tasks, completed_tasks, due_counts] of a group: the two benchmark
\* due-date distributions, groups of 3 and 9 tasks, a group with every due
\* date in the first bucket, a group of exactly 10 tasks, a group with no due
\* date
SegmentTasks ==
    {[total_tasks |-> 20, completed_tasks |-> 15, due_counts |-> <<3, 5, 6, 4, 2>>],
     [total_tasks |-> 20, completed_tasks |-> 14, due_counts |-> <<1, 2, 5, 7, 5>>],
     [total_tasks |-> 3, completed_tasks |-> 0, due_counts |-> <<1, 0, 0, 0, 0>>],
     [total_tasks |-> 9, completed_tasks |-> 1, due_counts |-> <<2, 2, 3, 1, 1>>],
     [total_tasks |-> 20, completed_tasks |-> 2, due_counts |-> <<20, 0, 0, 0, 0>>],
     [total_tasks |-> 10, completed_tasks |-> 7, due_counts |-> <<1, 3, 3, 2, 1>>],
     [total_tasks |-> 12, completed_tasks |-> 8, due_counts |-> <<0, 0, 0, 0, 0>>]}

Segments ==
    {[department |-> "engineering", project_type |-> t,
      total_tasks |-> g.total_tasks, completed_tasks |-> g.completed_tasks,
      due_counts |-> g.due_counts] : t \in SegmentProjectTypes, g \in SegmentTasks}

\* the groups of a corpus: GROUP BY yields each (department, project_type) once
Corpora ==
    {c \in UNION {[1..n -> Segments] : n \in 1..MaxSegments} :
        \A i, j \in 1..Len(c) : i # j => c[i].project_type # c[j].project_type}

\* distribution_similarity_threshold: 0, the default 0.05, 0.5
SimilarityThresholds == {0, 5000, 50000}

DstInit ==
    /\ dst \in [pc : {"input"}, segments : Corpora,
                distribution_similarity_threshold : SimilarityThresholds,
                completion_rates : {None}, due_date_distributions : {None}]
    /\ cal = CalIdle
    /\ life = LifeIdle
    /\ fld = FldIdle
    /\ cmt = CmtIdle
    /\ val = ValIdle
    /\ sts = StsIdle
    /\ prb = PrbIdle
    /\ rts = RtsIdle
    /\ tsk = TskIdle

\* query 1 and _validate_completion_rates on its rows (lines 502-514, 562)
ValidateCompletionRates ==
    /\ dst.pc = "input"
    /\ dst' = [dst EXCEPT !.pc = "completion_rates",
                  !.completion_rates =
                      Some(validate_completion_rates(completion_rate_rows(dst.segments)))]
    /\ UNCHANGED <<cal, life, fld, cmt, val, sts, prb, rts, tsk>>

\* query 2 and _validate_due_date_distributions on its rows (lines 517-534, 563)
ValidateDueDateDistributions ==
    /\ dst.pc = "completion_rates"
    /\ dst' = [dst EXCEPT !.pc = "due_date_distributions",
                  !.due_date_distributions =
                      Some(validate_due_date_distributions(due_date_groups(dst.segments),
                               dst.distribution_similarity_threshold))]
    /\ UNCHANGED <<cal, life, fld, cmt, val, sts, prb, rts, tsk>>

DstNext == ValidateCompletionRates \/ ValidateDueDateDistributions

SpecDistributions == DstInit /\ [][DstNext]_vars

DstDone == dst.pc = "due_date_distributions"

DstDueDetails == Val(dst.due_date_distributions).details

DstRateDetails == Val(dst.completion_rates).details

\* C12: a due-date segment whose observed distribution equals its benchmark
\* over the same buckets has KL divergence 0 and status 'success', whatever the
\* non-negative similarity threshold
C12_IdenticalDistributionSucceeds ==
    DstDone =>
        \A i \in 1..Len(DstDueDetails) :
            LET d == DstDueDetails[i]
            IN (\A b \in 1..Len(due_date_buckets) :
                    d.observed_distribution.w[b] * d.benchmark_distribution.den
                        = d.benchmark_distribution.w[b] * d.observed_distribution.den) =>
                    d.kl_divergence = 0 /\ d.status = "success"

\* C12 witness: a checked segment equal to its benchmark, under threshold 0
C12_Witness ==
    /\ DstDone
    /\ dst.distribution_similarity_threshold = 0
    /\ \E i \in 1..Len(DstDueDetails) :
          /\ \A b \in 1..Len(due_date_buckets) :
                DstDueDetails[i].observed_distribution.w[b] * 100
                    = DstDueDetails[i].benchmark_distribution.w[b] * 20
          /\ DstDueDetails[i].sample_size = 20
          /\ DstDueDetails[i].status = "success"

\* C13: a group of fewer than 10 tasks gets no 'failure' from the
\* completion-rate check nor from the due-date check, and neither check fails
\* on a corpus whose groups all have fewer than 10 tasks
C13_SmallSegmentsSkipped ==
    DstDone =>
        /\ \A i \in 1..Len(DstRateDetails) :
              DstRateDetails[i].sample_size < 10 => DstRateDetails[i].status # "failure"
        /\ \A i \in 1..Len(DstDueDetails) :
              DstDueDetails[i].sample_size < 10 => DstDueDetails[i].status # "failure"
        /\ (\A i \in 1..Len(dst.segments) : dst.segments[i].total_tasks < 10) =>
              /\ Val(dst.completion_rates).status # "failure"
              /\ Val(dst.due_date_distributions).status # "failure"

\* ------------------------------------------------------------------------
\* DataValidator (utils/validation.py): the six category checks and the
\* overall verdict. The database is the corpus the queries read: per category
\* either a storage fault (a query raises sqlite3.Error) or the numbers the
\* queries return.
\* ------------------------------------------------------------------------
\* the keys of results in the order of the dictionary of lines 121-129
validation_categories ==
    <<"schema_validation", "temporal_consistency", "referential_integrity",
      "distribution_validation", "business_rules", "data_quality">>

\* temporal_consistency_threshold and referential_integrity_threshold, percent
temporal_consistency_threshold == 95

referential_integrity_threshold == 99

\* the result of a check whose query raised sqlite3.Error
error_result == [status |-> "error"]

\* _validate_schema (lines 146-211)
validate_schema(schema) ==
    IF schema.fault THEN error_result
    ELSE [status |-> IF schema.missing_tables = 0 /\ schema.missing_indexes = 0
                     THEN "success" ELSE "failure",
          missing_tables |-> schema.missing_tables,
          missing_indexes |-> schema.missing_indexes]

\* status of a violation rate violations / total against 1 - threshold
\* (lines 323-325, 461-462); the rate is 0 when total is 0
violation_rate_status(violations, total, threshold) ==
    IF total > 0
    THEN IF violations * 100 <= (100 - threshold) * total THEN "success" ELSE "failure"
    ELSE "success"

\* _validate_temporal_consistency (lines 256-366)
validate_temporal_consistency(temporal) ==
    IF temporal.fault THEN error_result
    ELSE LET total_checks == temporal.task_total + temporal.project_total
                                + temporal.comment_total + temporal.subtask_total
             total_violations == temporal.task_completion_violations
                                   + temporal.task_future_violations
                                   + temporal.project_date_violations
                                   + temporal.comment_violations
                                   + temporal.subtask_violations
         IN [status |-> violation_rate_status(total_violations, total_checks,
                                              temporal_consistency_threshold),
             total_checks |-> total_checks,
             total_violations |-> total_violations]

\* _validate_referential_integrity (lines 368-484)
validate_referential_integrity(referential) ==
    IF referential.fault THEN error_result
    ELSE LET total_violations == referential.fk_violations
                                   + referential.relationship_violations
         IN [status |-> violation_rate_status(total_violations, referential.total_rows,
                                              referential_integrity_threshold),
             total_rows |-> referential.total_rows,
             total_violations |-> total_violations]

\* _validate_distributions (lines 486-591): [exc, result]. When the four
\* queries succeed the two defined checks run and line 564 then calls
\* self._validate_assignment_patterns, a method DataValidator does not have:
\* AttributeError, which the handler of sqlite3.Error does not catch.
validate_distributions(distribution) ==
    IF distribution.fault THEN [exc |-> "none", result |-> Some(error_result)]
    ELSE [exc |-> "AttributeError", result |-> None]

\* _validate_business_rules (lines 746-846)
validate_business_rules(business) ==
    IF business.fault THEN error_result
    ELSE [status |-> IF business.violations = 0 THEN "success" ELSE "failure",
          violation_count |-> business.violations]

\* _validate_data_quality (lines 848-963)
validate_data_quality(quality) ==
    IF quality.fault THEN error_result
    ELSE [status |-> IF quality.issues = 0 THEN "success" ELSE "failure",
          issue_count |-> quality.issues]

\* failed_categories of lines 131-134, in the order of the dictionary
failed_categories_with_errors(categories) ==
    SelectSeq(validation_categories,
              LAMBDA c : categories[c].status \in {"failure", "error"})

failed_categories_of(categories) ==
    SelectSeq(validation_categories, LAMBDA c : categories[c].status = "failure")

\* validate_database_integrity with every status other than 'success'
\* counted as a failure in overall_status
validate_database_integrity_strict(db) ==
    LET distributions == validate_distributions(db.distribution)
    IN IF distributions.exc # "none"
       THEN [exc |-> distributions.exc, results |-> None]
       ELSE LET categories ==
                    [c \in {validation_categories[i] : i \in 1..Len(validation_categories)} |->
                        CASE c = "schema_validation" -> validate_schema(db.schema)
                          [] c = "temporal_consistency" ->
                                validate_temporal_consistency(db.temporal)
                          [] c = "referential_integrity" ->
                                validate_referential_integrity(db.referential)
                          [] c = "distribution_validation" -> Val(distributions.result)
                          [] c = "business_rules" -> validate_business_rules(db.business)
                          [] OTHER -> validate_data_quality(db.quality)]
                failed_categories == failed_categories_of(categories)
            IN [exc |-> "none",
                results |-> Some(
                    [categories |-> categories,
                     overall_status |->
                         IF \E c \in DOMAIN categories :
                                categories[c].status # "success"
                         THEN "failure" ELSE "success",
                     failed_categories |-> IF failed_categories # <<>>
                                           THEN Some(failed_categories) ELSE None])]

\* validate_database_integrity (lines 109-144): [exc, results]; results holds
\* the six category results, overall_status and, when set, failed_categories
validate_database_integrity(db) ==
    LET distributions == validate_distributions(db.distribution)
    IN IF distributions.exc # "none"
       THEN [exc |-> distributions.exc, results |-> None]
       ELSE LET categories ==
                    [c \in {validation_categories[i] : i \in 1..Len(validation_categories)} |->
                        CASE c = "schema_validation" -> validate_schema(db.schema)
                          [] c = "temporal_consistency" ->
                                validate_temporal_consistency(db.temporal)
                          [] c = "referential_integrity" ->
                                validate_referential_integrity(db.referential)
                          [] c = "distribution_validation" -> Val(distributions.result)
                          [] c = "business_rules" -> validate_business_rules(db.business)
                          [] OTHER -> validate_data_quality(db.quality)]
                failed_categories == failed_categories_of(categories)
            IN [exc |-> "none",
                results |-> Some(
                    [categories |-> categories,
                     overall_status |-> IF failed_categories # <<>> THEN "failure"
                                        ELSE "success",
                     failed_categories |-> IF failed_categories # <<>>
                                           THEN Some(failed_categories) ELSE None])]

\* the menu of one failed category in suggest_fixes (lines 1041-1074)
category_fixes(category) ==
    CASE category = "temporal_consistency" ->
            <<"Run temporal consistency repair script to fix date violations",
              "Check task completion logic to ensure completed_at >= created_at",
              "Validate project timeline logic to ensure start_date <= end_date">>
      [] category = "referential_integrity" ->
            <<"Run foreign key repair to fix orphaned records",
              "Check data generation logic for proper relationship handling",
              "Validate that all foreign keys reference existing primary keys">>
      [] category = "distribution_validation" ->
            <<"Adjust task completion rate generation logic",
              "Review due date distribution algorithms",
              "Calibrate assignment patterns to match industry benchmarks">>
      [] category = "business_rules" ->
            <<"Ensure all projects have at least one section",
              "Add recent activity to inactive active projects",
              "Assign high priority tasks to team members">>
      [] category = "data_quality" ->
            <<"Fill missing required fields with default values",
              "Remove duplicate email addresses from users table",
              "Fix team name duplicates within organizations">>
      [] OTHER -> <<>>

\* suggest_fixes (lines 1019-1085): the dictionary as a function from its
\* keys; the message of the 'all' entry is given without its leading symbol
suggest_fixes(validation_results) ==
    IF validation_results.overall_status = "success"
    THEN [k \in {"all"} |-> <<"No fixes needed - all validations passed!">>]
    ELSE LET failed == {c \in DOMAIN validation_results.categories :
                            validation_results.categories[c].status = "failure"}
         IN IF failed = {}
            THEN [k \in {"general"} |->
                     <<"Review data generation pipeline for logical errors",
                       "Check configuration settings for validation thresholds",
                       "Validate input data sources for quality issues">>]
            ELSE [c \in failed |-> category_fixes(c)]

\* the validation step of generate_seed_data and the handlers around it
\* (main.py lines 198-241): the exit code of the process. An exception of
\* validate_database_integrity is logged, re-raised and turned into
\* SystemExit(1) by main.
run_exit_code(validation_enabled, validation) ==
    IF validation_enabled /\ validation.exc # "none" THEN 1 ELSE 0

\* ------------------------------------------------------------------------
\* Validation specification: validate_database_integrity and suggest_fixes on
\* a database, and the validation step of a run
\* ------------------------------------------------------------------------
SchemaInputs ==
    {[fault |-> TRUE, missing_tables |-> 0, missing_indexes |-> 0]}
        \cup [fault : {FALSE}, missing_tables : {0, 1}, missing_indexes : {0, 1}]

TemporalCounts(task_total, completion, future, project_total, dates, comment_total, comments, subtask_total, subtasks) ==
    [fault |-> FALSE, task_total |-> task_total,
     task_completion_violations |-> completion, task_future_violations |-> future,
     project_total |-> project_total, project_date_violations |-> dates,
     comment_total |-> comment_total, comment_violations |-> comments,
     subtask_total |-> subtask_total, subtask_violations |-> subtasks]

\* a fault; an empty corpus; 40 rows with 0, 2 (the threshold rate) and 3
\* violations; one task that is both completed before its creation and
\* created in the future
TemporalInputs ==
    {[TemporalCounts(0, 0, 0, 0, 0, 0, 0, 0, 0) EXCEPT !.fault = TRUE],
     TemporalCounts(0, 0, 0, 0, 0, 0, 0, 0, 0),
     TemporalCounts(20, 0, 0, 2, 0, 10, 0, 8, 0),
     TemporalCounts(20, 1, 0, 2, 0, 10, 1, 8, 0),
     TemporalCounts(20, 1, 0, 2, 1, 10, 1, 8, 0),
     TemporalCounts(1, 1, 1, 0, 0, 0, 0, 0, 0)}

\* a fault; an empty corpus; 100 rows with 0, 1 (the threshold rate) and 2
\* violations; an orphan subtask in a corpus with no task, project, user, team
\* or comment
ReferentialInputs ==
    {[fault |-> TRUE, fk_violations |-> 0, relationship_violations |-> 0, total_rows |-> 0],
     [fault |-> FALSE, fk_violations |-> 0, relationship_violations |-> 0, total_rows |-> 0],
     [fault |-> FALSE, fk_violations |-> 0, relationship_violations |-> 0, total_rows |-> 100],
     [fault |-> FALSE, fk_violations |-> 0, relationship_violations |-> 1, total_rows |-> 100],
     [fault |-> FALSE, fk_violations |-> 1, relationship_violations |-> 1, total_rows |-> 100],
     [fault |-> FALSE, fk_violations |-> 0, relationship_violations |-> 1, total_rows |-> 0]}

DistributionInputs == [fault : BOOLEAN]

BusinessInputs ==
    {[fault |-> TRUE, violations |-> 0], [fault |-> FALSE, violations |-> 0],
     [fault |-> FALSE, violations |-> 2]}

QualityInputs ==
    {[fault |-> TRUE, issues |-> 0], [fault |-> FALSE, issues |-> 0],
     [fault |-> FALSE, issues |-> 1]}

Databases ==
    [schema : SchemaInputs, temporal : TemporalInputs, referential : ReferentialInputs,
     distribution : DistributionInputs, business : BusinessInputs,
     quality : QualityInputs]

ValInit ==
    /\ val \in [pc : {"input"}, db : Databases, validation_enabled : BOOLEAN,
                validation : {None}, fixes : {None}, exit_code : {None}]
    /\ cal = CalIdle
    /\ life = LifeIdle
    /\ fld = FldIdle
    /\ cmt = CmtIdle
    /\ dst = DstIdle
    /\ sts = StsIdle
    /\ prb = PrbIdle
    /\ rts = RtsIdle
    /\ tsk = TskIdle

\* validator.validate_database_integrity(conn)
ValidateDatabaseIntegrity ==
    /\ val.pc = "input"
    /\ val' = [val EXCEPT !.pc = "validated",
                  !.validation = Some(validate_database_integrity(val.db))]
    /\ UNCHANGED <<cal, life, fld, cmt, dst, sts, prb, rts, tsk>>

\* validator.suggest_fixes(results) on the results of a validation
SuggestFixes ==
    /\ val.pc = "validated"
    /\ Val(val.validation).exc = "none"
    /\ val' = [val EXCEPT !.pc = "fixes",
                  !.fixes = Some(suggest_fixes(Val(Val(val.validation).results)))]
    /\ UNCHANGED <<cal, life, fld, cmt, dst, sts, prb, rts, tsk>>

\* the validation step of a run and its exit (main.py lines 198-241)
RunValidation ==
    /\ val.pc = "input"
    /\ LET validation == validate_database_integrity(val.db)
       IN val' = [val EXCEPT !.pc = "exited",
                     !.validation = IF val.validation_enabled THEN Some(validation)
                                    ELSE None,
                     !.exit_code = Some(run_exit_code(val.validation_enabled, validation))]
    /\ UNCHANGED <<cal, life, fld, cmt, dst, sts, prb, rts, tsk>>

ValNext == ValidateDatabaseIntegrity \/ SuggestFixes \/ RunValidation

SpecValidation == ValInit /\ [][ValNext]_vars

\* a validation has returned its results
ValReturned ==
    /\ val.pc \in {"validated", "fixes", "exited"}
    /\ ~IsNone(val.validation)
    /\ Val(val.validation).exc = "none"

ValResults == Val(Val(val.validation).results)

ValFailed == {c \in DOMAIN ValResults.categories : ValResults.categories[c].status = "failure"}

\* C14: in a returned result with a category of status 'failure',
\* overall_status is 'failure' and failed_categories lists each category of
\* status 'failure' once and no other
C14_OverallVerdict ==
    (ValReturned /\ ValFailed # {}) =>
        /\ ValResults.overall_status = "failure"
        /\ ~IsNone(ValResults.failed_categories)
        /\ LET failed_categories == Val(ValResults.failed_categories)
           IN /\ {failed_categories[i] : i \in 1..Len(failed_categories)} = ValFailed
              /\ Len(failed_categories) = Cardinality(ValFailed)

\* C14 witness: a returned result in which one category failed, one ended in
\* error and one succeeded
C14_Witness ==
    /\ ValReturned
    /\ ValResults.categories["schema_validation"].status = "failure"
    /\ ValResults.categories["distribution_validation"].status = "error"
    /\ ValResults.categories["data_quality"].status = "success"
    /\ ValResults.overall_status = "failure"

\* C15: every validation returns a result with an overall_status, and the
\* validation step of a run never makes the process exit with failure
C15_RunAlwaysCompletes ==
    /\ (val.pc \in {"validated", "fixes"}) =>
          /\ Val(val.validation).exc = "none"
          /\ Val(Val(val.validation).results).overall_status \in {"success", "failure"}
    /\ (val.pc = "exited") => Val(val.exit_code) = 0

\* ------------------------------------------------------------------------
\* Completion probability specification: _get_completion_probability on an
\* item and on the otherwise identical item with another due date
\* ------------------------------------------------------------------------
ProbDepartments ==
    {"engineering", "product", "marketing", "sales", "operations", "legal"}

ProbProjectTypes ==
    {"sprint", "bug_tracking", "feature_development", "campaign", "research", "other"}

\* 09:30:00 on each day of the week of Monday 2025-12-29
ProbCreatedChoices == {d * SecondsPerDay + 34200 : d \in 0..6}

\* due dates relative to created_at: a day before, a second before, at
\* created_at, 12 hours and 2, 5, 10, 30 and 31 days after; or no due date
ProbDueOffsets ==
    {-86400, -1, 0, 43200, 2 * 86400, 5 * 86400, 10 * 86400, 30 * 86400, 31 * 86400}

ProbDueChoices(c) == {None} \cup {Some(c + o) : o \in ProbDueOffsets}

ProbInputs(c) ==
    [pc : {"input"}, department : ProbDepartments, project_type : ProbProjectTypes,
     created_at : {c}, due_date : ProbDueChoices(c), other_due_date : ProbDueChoices(c),
     probability : {None}, other_probability : {None}]

PrbInit ==
    /\ prb \in UNION {ProbInputs(c) : c \in ProbCreatedChoices}
    /\ cal = CalIdle
    /\ life = LifeIdle
    /\ fld = FldIdle
    /\ cmt = CmtIdle
    /\ dst = DstIdle
    /\ val = ValIdle
    /\ sts = StsIdle
    /\ rts = RtsIdle
    /\ tsk = TskIdle

\* _get_completion_probability(department, project_type, created_at, due_date)
GetCompletionProbability ==
    /\ prb.pc = "input"
    /\ prb' = [prb EXCEPT !.pc = "item",
                  !.probability = Some(get_completion_probability(prb.department,
                                      prb.project_type, prb.created_at, prb.due_date))]
    /\ UNCHANGED <<cal, life, fld, cmt, dst, val, sts, rts, tsk>>

\* the same call for the item that differs in its due date only
GetOtherCompletionProbability ==
    /\ prb.pc = "item"
    /\ prb' = [prb EXCEPT !.pc = "done",
                  !.other_probability = Some(get_completion_probability(prb.department,
                                      prb.project_type, prb.created_at, prb.other_due_date))]
    /\ UNCHANGED <<cal, life, fld, cmt, dst, val, sts, rts, tsk>>

PrbNext == GetCompletionProbability \/ GetOtherCompletionProbability

SpecProbability == PrbInit /\ [][PrbNext]_vars

\* the item's due date is at or before its creation
PrbOverdue == ~IsNone(prb.due_date) /\ Val(prb.due_date) <= prb.created_at

\* the other item is not overdue: no due date, or a due date after created_at
PrbOtherNotOverdue ==
    IsNone(prb.other_due_date) \/ Val(prb.other_due_date) > prb.created_at

\* the other item has no due date, or one 8 to 30 whole days after created_at
PrbOtherUnadjusted ==
    IsNone(prb.other_due_date)
        \/ timedelta_days(Val(prb.other_due_date) - prb.created_at) \in 8..30

\* C16 (as claimed): an overdue item gets exactly half of the probability of
\* the otherwise identical item that is not overdue
C16_HalfOfNonOverdue ==
    (prb.pc = "done" /\ PrbOverdue /\ PrbOtherNotOverdue) =>
        2 * Val(prb.probability) = Val(prb.other_probability)

\* C16 (amended): an overdue item gets exactly half of the probability of the
\* otherwise identical item that has no due date or is due 8 to 30 whole days
\* after its creation, and neither value is clamped
C16_HalfOfUnadjusted ==
    (prb.pc = "done" /\ PrbOverdue /\ PrbOtherUnadjusted) =>
        /\ 2 * Val(prb.probability) = Val(prb.other_probability)
        /\ Val(prb.probability) > 10000
        /\ Val(prb.other_probability) < 95000

\* C16 witness: an item due exactly at its creation, on a Friday, against the
\* item with no due date
C16_Witness ==
    /\ prb.pc = "done"
    /\ ~IsNone(prb.due_date) /\ Val(prb.due_date) = prb.created_at
    /\ IsNone(prb.other_due_date)
    /\ weekday(date(prb.created_at)) = 4
    /\ 2 * Val(prb.probability) = Val(prb.other_probability)

\* engineering / sprint, created on a Friday, no due date
PrbEngineeringSprintFriday ==
    /\ prb.pc \in {"item", "done"}
    /\ prb.department = "engineering" /\ prb.project_type = "sprint"
    /\ weekday(date(prb.created_at)) = 4
    /\ IsNone(prb.due_date)

\* C17 (as claimed): engineering / sprint, created on a Friday, no due date:
\* the probability is 0.65 * 0.85, about 0.552
C17_BaseTimesFriday ==
    PrbEngineeringSprintFriday =>
        abs(Val(prb.probability) - (65000 * 85) \div 100) <= 100

\* C17 (amended): engineering / sprint, created on a Friday, no due date: the
\* probability is (0.65 + 0.15) * 0.85 = 0.68
C17_BasePlusSprintTimesFriday ==
    PrbEngineeringSprintFriday => Val(prb.probability) = 68000

\* C17 witness: the call of the scenario has returned
C17_Witness ==
    /\ PrbEngineeringSprintFriday
    /\ prb.created_at = 4 * SecondsPerDay + 34200
    /\ Val(prb.probability) = 68000

\* the four fields of a returned lifecycle record that completion sets
LifeSetFields ==
    {f \in {"started_at", "completed_at", "cycle_time_days", "lead_time_days"} :
        ~IsNone(Val(life.result)[f])}

\* the uniform draw of the call was below the completion probability
LifeDrawBelow ==
    Val(life.r) * RateScale
        < get_completion_probability(life.department, life.project_type,
                                     life.created_at, life.due_date) * RandomDen

\* C18: a returned lifecycle record has started_at, completed_at,
\* cycle_time_days and lead_time_days all set or all None, all None when the
\* uniform draw was not below the completion probability, and created_at as
\* it was passed
C18_LifecycleStateMachine ==
    (life.pc = "done" /\ Val(life.result).exc = "none") =>
        /\ Cardinality(LifeSetFields) \in {0, 4}
        /\ ~LifeDrawBelow => LifeSetFields = {}
        /\ LifeDrawBelow => Cardinality(LifeSetFields) = 4
        /\ Val(life.result).created_at = life.created_at

\* C18 witness: a call whose draw was not below the probability returned a
\* record with the four fields None
C18_Witness ==
    /\ life.pc = "done"
    /\ Val(life.result).exc = "none"
    /\ ~LifeDrawBelow
    /\ LifeSetFields = {}
    /\ Val(life.result).created_at = life.created_at

\* C19: for results whose overall status is 'failure', suggest_fixes returns
\* an entry for each category of status 'failure' and for no other key, and
\* every entry is a non-empty list of suggestions
C19_RemediationMenu ==
    (val.pc = "fixes" /\ ValResults.overall_status = "failure") =>
        /\ DOMAIN Val(val.fixes) = ValFailed
        /\ \A c \in DOMAIN Val(val.fixes) : Val(val.fixes)[c] # <<>>

\* ------------------------------------------------------------------------
\* Status (models/base.py): a status with its history of transitions.
\* datetime.now() is a clock that every call of update finds advanced by one.
\* ------------------------------------------------------------------------
VALID_STATUSES == {"active", "completed", "archived", "blocked", "pending"}

STATUS_TRANSITIONS ==
    [c \in VALID_STATUSES |->
        CASE c = "active" -> {"completed", "blocked", "archived"}
          [] c = "completed" -> {"archived"}
          [] c = "blocked" -> {"active", "archived"}
          [] c = "pending" -> {"active", "archived"}
          [] OTHER -> {}]

\* Status.update with no validation of the transition
update_unchecked(status, new_status, reason, user, now) ==
    IF new_status \notin VALID_STATUSES
    THEN [exc |-> "ValidationError", status |-> status]
    ELSE IF new_status = status.current
    THEN [exc |-> "none", status |-> status]
    ELSE [exc |-> "none",
          status |-> [current |-> new_status,
                      history |-> Append(status.history,
                                     [from |-> status.current, to |-> new_status,
                                      reason |-> reason, user |-> user,
                                      timestamp |-> status.last_updated]),
                      last_updated |-> now]]

\* Status.update (lines 325-351): [exc, status], status being the object
\* after the call; now is the value of datetime.now()
update(status, new_status, reason, user, now) ==
    IF new_status \notin VALID_STATUSES
    THEN [exc |-> "ValidationError", status |-> status]
    ELSE IF new_status = status.current
    THEN [exc |-> "none", status |-> status]
    ELSE IF status.current \notin DOMAIN STATUS_TRANSITIONS
            \/ new_status \notin STATUS_TRANSITIONS[status.current]
    THEN [exc |-> "ValidationError", status |-> status]
    ELSE [exc |-> "none",
          status |-> [current |-> new_status,
                      history |-> Append(status.history,
                                     [from |-> status.current, to |-> new_status,
                                      reason |-> reason, user |-> user,
                                      timestamp |-> status.last_updated]),
                      last_updated |-> now]]

\* ------------------------------------------------------------------------
\* Status specification: a Status object and a sequence of update calls
\* ------------------------------------------------------------------------
MaxUpdates == 4

\* the statuses an object is built with and update is called with: the valid
\* ones and one that is not
StatusInputs == VALID_STATUSES \cup {"on_hold"}

StsInit ==
    /\ sts \in [pc : {"ready"}, status : [current : StatusInputs, history : {<<>>},
                                           last_updated : {0}],
                clock : {0}, new_status : {None}, exc : {"none"}]
    /\ cal = CalIdle
    /\ life = LifeIdle
    /\ fld = FldIdle
    /\ cmt = CmtIdle
    /\ dst = DstIdle
    /\ val = ValIdle
    /\ prb = PrbIdle
    /\ rts = RtsIdle
    /\ tsk = TskIdle

\* status.update(new_status, reason, user)
Update ==
    /\ sts.pc = "ready"
    /\ sts.clock < MaxUpdates
    /\ \E new_status \in StatusInputs, user \in {None, Some("user1")} :
          LET call == update(sts.status, new_status, None, user, sts.clock + 1)
          IN sts' = [sts EXCEPT !.status = call.status, !.exc = call.exc,
                                !.new_status = Some(new_status),
                                !.clock = sts.clock + 1]
    /\ UNCHANGED <<cal, life, fld, cmt, dst, val, prb, rts, tsk>>

StsNext == Update

SpecStatus == StsInit /\ [][StsNext]_vars

\* C20: an update call changes current only along an edge of
\* STATUS_TRANSITIONS; a requested change that is no edge raises
\* ValidationError and leaves current, history and last_updated as they were;
\* an update to the current status appends nothing to history
C20_StatusTransitions ==
    [][/\ sts'.status.current # sts.status.current =>
             /\ sts.status.current \in DOMAIN STATUS_TRANSITIONS
             /\ sts'.status.current \in STATUS_TRANSITIONS[sts.status.current]
       /\ (Val(sts'.new_status) # sts.status.current
             /\ (sts.status.current \notin DOMAIN STATUS_TRANSITIONS
                    \/ Val(sts'.new_status)
                          \notin STATUS_TRANSITIONS[sts.status.current])) =>
             /\ sts'.exc = "ValidationError"
             /\ sts'.status = sts.status
       /\ Val(sts'.new_status) = sts.status.current =>
             sts'.status.history = sts.status.history
       /\ sts.status.current = "archived" => sts'.status.current = "archived"
       /\ (sts.status.current = "completed" /\ sts.status.current # sts'.status.current) =>
             sts'.status.current = "archived"]_vars

\* C20 witness: an object that went from active to completed to archived, its
\* history holding the two transitions, and then refused to become active
C20_Witness ==
    /\ sts.pc = "ready"
    /\ sts.status.current = "archived"
    /\ Len(sts.status.history) = 2
    /\ sts.status.history[1].from = "active" /\ sts.status.history[1].to = "completed"
    /\ sts.new_status = Some("active")
    /\ sts.exc = "ValidationError"
    /\ sts.status.last_updated < sts.clock

\* C21: in every completed lifecycle record started_at lies in
\* [created_at + 5 min, completed_at - 30 min]
C21_StartClamp ==
    LifeCompleted =>
        /\ life.created_at + 5 * 60 <= Val(Val(life.result).started_at)
        /\ Val(Val(life.result).started_at)
              <= Val(Val(life.result).completed_at) - 30 * 60

\* C22: when a due date exists and created_at + duration is later than it,
\* the completion timestamp before the business-hours adjustment lies in
\* [max(created_at + 1 h, due_date - 3 days), due_date]
C22_ReanchoredBeforeDue ==
    (life.pc = "done" /\ ~IsNone(life.completion) /\ ~IsNone(life.due_date)
        /\ Val(life.completion).unanchored > Val(life.due_date)) =>
            /\ max(life.created_at + 1 * SecondsPerHour,
                   Val(life.due_date) - 3 * SecondsPerDay)
                  <= Val(life.completion).anchored
            /\ Val(life.completion).anchored <= Val(life.due_date)

\* ---------------------------------------------------------------------
\* generate_realistic_timestamp (src/utils/temporal.py)
\* ---------------------------------------------------------------------

\* department_patterns[department]['weekend_activity'], in 1/RateScale
weekend_activity(department) ==
    CASE department = "engineering" -> 15000
      [] department = "product" -> 10000
      [] department = "marketing" -> 20000
      [] department = "sales" -> 12000
      [] department = "operations" -> 8000
      [] OTHER -> 15000

\* department_patterns[department]['evening_activity'], in 1/RateScale
evening_activity(department) ==
    CASE department = "engineering" -> 25000
      [] department = "product" -> 20000
      [] department = "marketing" -> 30000
      [] department = "sales" -> 35000
      [] department = "operations" -> 15000
      [] OTHER -> 25000

\* project_type_patterns[project_type]['weekend_pause_factor'], in 1/RateScale
weekend_pause_factor(project_type) ==
    CASE project_type = "sprint" -> 30000
      [] project_type = "bug_tracking" -> 60000
      [] project_type = "feature_development" -> 20000
      [] project_type = "campaign" -> 70000
      [] project_type = "research" -> 80000
      [] OTHER -> 30000

\* 0.85, lowered on weekends and outside the work hours (lines 313-319)
work_hours_probability(department, base_date) ==
    IF weekday(date(base_date)) >= 5
    THEN (85 * (RateScale - weekend_activity(department))) \div 100
    ELSE IF hour(base_date) < work_start_hour \/ hour(base_date) >= work_end_hour
         THEN (85 * (RateScale - evening_activity(department))) \div 100
         ELSE 85000

\* draws of one call: work and pause are the two random.random() draws in
\* 1/RateScale, first and second the draws of the two time selections
TimestampDraws ==
    [work : {0, 50000, 90000}, first : SnapDraws,
     pause : {0, 50000, 90000}, second : SnapDraws]

\* generate_realistic_timestamp: [exc, generated, value], generated being the
\* timestamp before the project type adjustment; every hour has a positive
\* weight for every activity type, so the activity type does not restrict
\* the draws
generate_realistic_timestamp(department, project_type, base_date, d) ==
    LET first == IF d.work < work_hours_probability(department, base_date)
                 THEN get_random_time_in_work_hours(base_date, d.first)
                 ELSE [exc |-> "none",
                       value |-> at_time(base_date, d.first.hour,
                                         minute_of(d.first), d.first.second)]
        timestamp == first.value
        moved == get_random_time_in_work_hours(get_next_business_day(timestamp),
                                               d.second)
    IN IF first.exc # "none"
       THEN [exc |-> first.exc, generated |-> None, value |-> base_date]
       ELSE IF weekday(date(timestamp)) >= 5
            THEN IF d.pause < weekend_pause_factor(project_type)
                 THEN [exc |-> "none", generated |-> Some(timestamp),
                       value |-> replace_hms(timestamp,
                                    min(max(hour(timestamp), 9), 20),
                                    minute_of(d.second), d.second.second)]
                 ELSE [exc |-> moved.exc, generated |-> Some(timestamp),
                       value |-> moved.value]
            ELSE [exc |-> "none", generated |-> Some(timestamp),
                  value |-> timestamp]

\* ---------------------------------------------------------------------
\* Timestamp specification: one call of generate_realistic_timestamp
\* ---------------------------------------------------------------------

\* base dates: Wednesday 2025-12-31, Saturday 2026-01-03, Sunday 2026-01-04,
\* Saturday 2026-01-17 and Sunday 2026-01-18 (before the holiday of Monday
\* 2026-01-19), each at 08:30, 12:30 and 19:30
RtsBaseDates ==
    {d * SecondsPerDay + h * SecondsPerHour + 1800 :
        d \in {2, 5, 6, 19, 20}, h \in {8, 12, 19}}

RtsInit ==
    /\ rts \in [pc : {"input"}, department : {"engineering", "sales"},
                project_type : {"sprint", "research"},
                base_date : RtsBaseDates, pause : {None}, result : {None}]
    /\ cal = CalIdle
    /\ life = LifeIdle
    /\ fld = FldIdle
    /\ cmt = CmtIdle
    /\ dst = DstIdle
    /\ val = ValIdle
    /\ sts = StsIdle
    /\ prb = PrbIdle
    /\ tsk = TskIdle

GenerateRealisticTimestamp ==
    /\ rts.pc = "input"
    /\ \E d \in TimestampDraws :
          LET res == generate_realistic_timestamp(rts.department,
                         rts.project_type, rts.base_date, d)
          IN rts' = [rts EXCEPT !.pc = "done",
                        !.pause = IF ~IsNone(res.generated)
                                     /\ weekday(date(Val(res.generated))) >= 5
                                  THEN Some(d.pause) ELSE None,
                        !.result = Some(res)]
    /\ UNCHANGED <<cal, life, fld, cmt, dst, val, sts, prb, tsk>>

RtsNext == GenerateRealisticTimestamp

SpecTimestamp == RtsInit /\ [][RtsNext]_vars

\* a timestamp was returned and the one generated first fell on a weekend
RtsWeekendReturned ==
    /\ rts.pc = "done"
    /\ Val(rts.result).exc = "none"
    /\ weekday(date(Val(Val(rts.result).generated))) >= 5

\* C23: a weekend timestamp whose draw is not below weekend_pause_factor is
\* returned on the next business day, the time selection keeping that date;
\* one whose draw is below the factor keeps its date with an hour in 9..20
C23_WeekendPauseOverride ==
    RtsWeekendReturned =>
        LET generated == Val(Val(rts.result).generated)
            value == Val(rts.result).value
        IN IF Val(rts.pause) < weekend_pause_factor(rts.project_type)
           THEN /\ date(value) = date(generated)
                /\ hour(value) \in 9..20
           ELSE /\ is_business_day(date(value))
                /\ date(value) = date(get_next_business_day(generated))

\* a Saturday timestamp before a holiday Monday was moved to the Tuesday
C23_Witness ==
    /\ RtsWeekendReturned
    /\ Val(rts.pause) >= weekend_pause_factor(rts.project_type)
    /\ date(Val(rts.result).value) = date(Val(Val(rts.result).generated)) + 3

\* ---------------------------------------------------------------------
\* TaskGenerator (src/generators/tasks.py)
\* ---------------------------------------------------------------------

\* completion_rates[project_type]: <<low, high>> in 1/RateScale
completion_rates(project_type) ==
    CASE project_type = "sprint" -> <<70000, 85000>>
      [] project_type = "bug_tracking" -> <<60000, 70000>>
      [] project_type = "feature_development" -> <<50000, 65000>>
      [] project_type = "tech_debt" -> <<40000, 55000>>
      [] project_type = "research" -> <<30000, 45000>>
      [] project_type = "campaign" -> <<65000, 80000>>
      [] project_type = "content_calendar" -> <<75000, 90000>>
      [] project_type = "roadmap_planning" -> <<40000, 55000>>
      [] project_type = "user_research" -> <<50000, 65000>>
      [] project_type = "process_improvement" -> <<45000, 60000>>
      [] project_type = "budget_planning" -> <<55000, 70000>>
      [] project_type = "lead_generation" -> <<60000, 75000>>
      [] project_type = "sales_pipeline" -> <<40000, 55000>>
      [] OTHER -> <<50000, 70000>>

\* _get_completion_rate with random.uniform drawn at an end of the range
get_completion_rate(project_type, project_age_days, base_high) ==
    LET rate_range == completion_rates(project_type)
        base_rate == IF base_high THEN rate_range[2] ELSE rate_range[1]
        age_adjustment == IF project_age_days >= 180 THEN 20000
                          ELSE (project_age_days * 20000) \div 180
        status_adjustment == IF project_type = "sprint" THEN 10000 ELSE 0
    IN min(base_rate + age_adjustment + status_adjustment, 95000)

\* due_date_distributions[project_type]: the (min_days, max_days) buckets, the
\* bucket (None, None) being None; every bucket has a positive probability
due_date_distributions(project_type) ==
    CASE project_type = "sprint" ->
           <<Some(<<1, 3>>), Some(<<4, 7>>), Some(<<8, 14>>), Some(<<15, 30>>), None>>
      [] project_type = "bug_tracking" ->
           <<Some(<<0, 1>>), Some(<<2, 3>>), Some(<<4, 7>>), Some(<<8, 14>>),
             Some(<<15, 30>>), None>>
      [] project_type = "feature_development" ->
           <<Some(<<1, 7>>), Some(<<8, 14>>), Some(<<15, 30>>), Some(<<31, 60>>),
             Some(<<61, 90>>), None>>
      [] project_type = "campaign" ->
           <<Some(<<1, 7>>), Some(<<8, 14>>), Some(<<15, 30>>), Some(<<31, 60>>),
             Some(<<61, 90>>), None>>
      [] OTHER ->
           <<Some(<<1, 7>>), Some(<<8, 14>>), Some(<<15, 30>>), Some(<<31, 60>>),
             Some(<<61, 90>>), None>>

\* section_urgency.get(section_name, 1.0), in tenths
section_urgency(section_name) ==
    CASE section_name = "Backlog" -> 15
      [] section_name = "Ready" -> 12
      [] section_name = "In Progress" -> 10
      [] section_name = "In Review" -> 8
      [] section_name = "Done" -> 5
      [] section_name = "To Do" -> 12
      [] section_name = "Blocked" -> 20
      [] section_name = "Urgent" -> 5
      [] section_name = "Critical" -> 3
      [] OTHER -> 10

\* the characters of the modelled section names and of the two markers
SectionChars(s) ==
    CASE s = "Backlog" -> <<"B", "a", "c", "k", "l", "o", "g">>
      [] s = "In Progress" -> <<"I", "n", " ", "P", "r", "o", "g", "r", "e", "s", "s">>
      [] s = "Done" -> <<"D", "o", "n", "e">>
      [] s = "Complete" -> <<"C", "o", "m", "p", "l", "e", "t", "e">>

\* 0.05 if 'Done' in section_name or 'Complete' in section_name else 0.1
overdue_chance(section_name) ==
    IF \/ IsSubstring(SectionChars("Done"), SectionChars(section_name))
       \/ IsSubstring(SectionChars("Complete"), SectionChars(section_name))
    THEN 5000 ELSE 10000

\* the overdue replacement without the test of the thirty days
overdue_due_date_unguarded(due_date, current_date, section_name, r, n) ==
    IF r < overdue_chance(section_name) /\ due_date < current_date
    THEN current_date - n * SecondsPerDay
    ELSE due_date

\* lines 462-468: an overdue date more than thirty days old is replaced by
\* current_date - randint(1, 30) days
overdue_due_date(due_date, current_date, section_name, r, n) ==
    IF r < overdue_chance(section_name) /\ due_date < current_date
    THEN IF timedelta_days(current_date - due_date) > 30
         THEN current_date - n * SecondsPerDay
         ELSE due_date
    ELSE due_date

\* draws of one task: bucket_index of random.choices, the ends of the
\* random.randint ranges, the random.random() draws in 1/RateScale and
\* int(np.random.lognormal(1.0, 0.5))
TaskDraws(project_type) ==
    [since_high : BOOLEAN,
     bucket_index : 1..Len(due_date_distributions(project_type)),
     offset_high : BOOLEAN, business : {0, 90000}, future_days : {30, 180},
     overdue : {0, 90000}, overdue_days : {1, 30},
     base_high : BOOLEAN, completed : {0, 60000, 96000},
     completion_days : {0, 2, 40}]

\* _generate_realistic_due_date: [drawn, business, replaced, value]; drawn is
\* created_date + days_offset, business tells that the draw was below 0.85,
\* replaced that one of the two later replacements acted
generate_realistic_due_date(project_type, created_date, section_name, current_date, d) ==
    LET bucket == due_date_distributions(project_type)[d.bucket_index]
        urgency_factor == section_urgency(section_name)
        min_days == max(0, (Val(bucket)[1] * urgency_factor) \div 10)
        max_days == max(min_days + 1,
                        max(0, (Val(bucket)[2] * urgency_factor) \div 10))
        days_offset == IF d.offset_high THEN max_days ELSE min_days
        drawn == created_date + days_offset * SecondsPerDay
        business == d.business < 85000
        due1 == IF business THEN get_business_day_offset(drawn, 0) ELSE drawn
        due2 == IF due1 > current_date + 180 * SecondsPerDay
                THEN current_date + d.future_days * SecondsPerDay
                ELSE due1
        due3 == overdue_due_date(due2, current_date, section_name,
                                 d.overdue, d.overdue_days)
    IN IF IsNone(bucket)
       THEN [drawn |-> None, business |-> FALSE, replaced |-> FALSE,
             value |-> None]
       ELSE [drawn |-> Some(drawn), business |-> business,
             replaced |-> (due3 # due1), value |-> Some(due3)]

\* one pass of the loop of _generate_tasks_for_project: the task's created_at,
\* due_date (formatted %Y-%m-%d: the day), completed and completed_at, and
\* the record of its due date generation
generate_task(project_type, start_date, current_date, section_name, d) ==
    LET project_age_days == timedelta_days(current_date - start_date)
        completion_rate == get_completion_rate(project_type, project_age_days,
                                               d.base_high)
        days_since_start == IF d.since_high THEN min(project_age_days, 180) ELSE 0
        created_date == IF project_age_days > 0
                        THEN start_date + days_since_start * SecondsPerDay
                        ELSE current_date
        due == generate_realistic_due_date(project_type, created_date,
                                           section_name, current_date, d)
        due_date == due.value
        is_completed == d.completed < completion_rate
        max_completion_days ==
            IF ~IsNone(due_date) /\ Val(due_date) > created_date
            THEN timedelta_days(Val(due_date) - created_date)
            ELSE 14
        completion_days == max(1, min(min(d.completion_days, max_completion_days), 30))
        completed_at0 == created_date + completion_days * SecondsPerDay
        completed_at == IF completed_at0 > current_date
                        THEN min(current_date,
                                 IF ~IsNone(due_date) THEN Val(due_date)
                                 ELSE current_date)
                        ELSE completed_at0
    IN [created_at |-> created_date,
        due |-> due,
        due_date |-> IF IsNone(due_date) THEN None ELSE Some(date(Val(due_date))),
        completed |-> is_completed,
        completed_at |-> IF is_completed THEN Some(completed_at) ELSE None]

\* ---------------------------------------------------------------------
\* Task specification: one task of _generate_tasks_for_project
\* ---------------------------------------------------------------------

\* datetime.now(): Wednesday 2026-02-11 10:00:00
TaskNow == 44 * SecondsPerDay + 10 * SecondsPerHour

\* project start dates: the day after TaskNow, the day before it, Thursday
\* 2026-01-08 and Friday 2026-01-02
TaskStartDates == {45 * SecondsPerDay, 43 * SecondsPerDay, 10 * SecondsPerDay,
                   4 * SecondsPerDay}

TskInit ==
    /\ tsk \in [pc : {"input"}, project_type : {"sprint", "bug_tracking"},
                section_name : {"In Progress", "Done", "Backlog"},
                start_date : TaskStartDates, current_date : {TaskNow},
                task : {None}]
    /\ cal = CalIdle
    /\ life = LifeIdle
    /\ fld = FldIdle
    /\ cmt = CmtIdle
    /\ dst = DstIdle
    /\ val = ValIdle
    /\ sts = StsIdle
    /\ prb = PrbIdle
    /\ rts = RtsIdle

GenerateTask ==
    /\ tsk.pc = "input"
    /\ \E d \in TaskDraws(tsk.project_type) :
          tsk' = [tsk EXCEPT !.pc = "done",
                     !.task = Some(generate_task(tsk.project_type, tsk.start_date,
                                       tsk.current_date, tsk.section_name, d))]
    /\ UNCHANGED <<cal, life, fld, cmt, dst, val, sts, prb, rts>>

TskNext == GenerateTask

SpecTasks == TskInit /\ [][TskNext]_vars

\* a completed task was generated
TskCompleted == tsk.pc = "done" /\ Val(tsk.task).completed

\* C24: every completed task has completed_at >= created_at
C24_NoCompletionBeforeCreation ==
    TskCompleted => Val(Val(tsk.task).completed_at) >= Val(tsk.task).created_at

\* the cap of the completion acted and moved it down to the creation time
C24_Witness ==
    /\ TskCompleted
    /\ Val(tsk.task).created_at + SecondsPerDay > tsk.current_date
    /\ Val(Val(tsk.task).completed_at) = Val(tsk.task).created_at

\* C25: completed_at of a completed task is not later than the current date
\* and, when a due date is set, not later than the due date
C25_CompletionCapped ==
    TskCompleted =>
        /\ Val(Val(tsk.task).completed_at) <= tsk.current_date
        /\ ~IsNone(Val(tsk.task).due_date) =>
              date(Val(Val(tsk.task).completed_at)) <= Val(Val(tsk.task).due_date)

\* the business day nearest to day d lies at distance k
NearestBusinessDistance(d, k) ==
    /\ is_business_day(d - k) \/ is_business_day(d + k)
    /\ \A j \in 0..(k - 1) : ~is_business_day(d - j) /\ ~is_business_day(d + j)

\* C27: a due date of the business-day branch that is not replaced later is
\* a business day, the one nearest to the drawn date
C27_BusinessDayDueDate ==
    (/\ tsk.pc = "done"
     /\ ~IsNone(Val(tsk.task).due.value)
     /\ Val(tsk.task).due.business
     /\ ~Val(tsk.task).due.replaced) =>
        LET drawn == date(Val(Val(tsk.task).due.drawn))
            value == date(Val(Val(tsk.task).due.value))
        IN /\ is_business_day(value)
           /\ NearestBusinessDistance(drawn, abs(value - drawn))

\* C26: a returned comment timestamp t satisfies task_created_at + 30 min <= t
\* and t <= task_completed_at for a completed task, t <= now otherwise
C26_CommentTimestampBounds ==
    (cmt.pc = "done" /\ Val(cmt.result).exc = "none") =>
        /\ cmt.task_created_at + 30 * 60 <= Val(Val(cmt.result).value)
        /\ Val(Val(cmt.result).value)
              <= IF ~IsNone(cmt.task_completed_at) THEN Val(cmt.task_completed_at)
                 ELSE cmt.current_time

\* C28: in the temporal and in the referential check the violations never
\* exceed the denominator of violation_rate, so that the rate lies in [0, 1],
\* and an empty corpus has status 'success'
C28_ViolationRatesAreFractions ==
    ValReturned =>
        LET temporal == ValResults.categories["temporal_consistency"]
            referential == ValResults.categories["referential_integrity"]
        IN /\ temporal.status # "error" =>
                /\ 0 <= temporal.total_violations
                /\ temporal.total_violations <= temporal.total_checks
                /\ temporal.total_checks = 0 => temporal.status = "success"
           /\ referential.status # "error" =>
                /\ 0 <= referential.total_violations
                /\ referential.total_violations <= referential.total_rows
                /\ referential.total_rows = 0 => referential.status = "success"

\* C29: an item whose due date is later than created_at by less than 24 hours
\* is not halved as overdue: it gets the probability of the otherwise
\* identical item that is due one to three whole days after created_at
C29_DueWithinADayIsUrgent ==
    (/\ prb.pc = "done"
     /\ ~IsNone(prb.due_date)
     /\ Val(prb.due_date) > prb.created_at
     /\ Val(prb.due_date) < prb.created_at + SecondsPerDay
     /\ ~IsNone(prb.other_due_date)
     /\ timedelta_days(Val(prb.other_due_date) - prb.created_at) \in 1..3) =>
        Val(prb.probability) = Val(prb.other_probability)

\* the categories of a returned result that ended in 'error'
ValErrors == {c \in DOMAIN ValResults.categories : ValResults.categories[c].status = "error"}

\* C30: a returned result with categories of status 'error' and none of
\* status 'failure' has overall_status 'success' and no failed_categories,
\* and a category of status 'error' is never listed in failed_categories
C30_ErrorIsNotFailure ==
    ValReturned =>
        /\ (ValErrors # {} /\ ValFailed = {}) =>
              /\ ValResults.overall_status = "success"
              /\ IsNone(ValResults.failed_categories)
        /\ ~IsNone(ValResults.failed_categories) =>
              \A i \in 1..Len(Val(ValResults.failed_categories)) :
                  Val(ValResults.failed_categories)[i] \notin ValErrors

\* C30 witness: the schema and the distribution check ended in error, the
\* other four categories succeeded, and the verdict is 'success'
C30_Witness ==
    /\ ValReturned
    /\ ValErrors = {"schema_validation", "distribution_validation"}
    /\ ValFailed = {}
    /\ ValResults.overall_status = "success"
    /\ IsNone(ValResults.failed_categories)

====
